---- MODULE Spec2Model ----
(***************************************************************************)
(* A model of report_generator_bot.py: label normalisation and tabular     *)
(* ingestion (normalize_key, predefined_keys, parse_uploaded_excel), the   *)
(* section-by-section generation run (generate_section,                    *)
(* generate_full_report) and the part of the Streamlit session (main) that *)
(* calls them.                                                             *)
(*                                                                         *)
(* A text (a Python str) is a sequence of characters; a character is a     *)
(* one-character string, except the three Greek sigmas, which are written  *)
(* by their code points.  An answer map (a Python dict keyed by slot id)   *)
(* is a function whose domain is the set of keys present.                  *)
(***************************************************************************)
EXTENDS Integers, Sequences, FiniteSets, TLC

VARIABLES
  mode,              \* st.session_state.mode: "none" (None), "questionnaire", "upload"
  step,              \* st.session_state.step
  report_data,       \* st.session_state.report_data
  generated_report,  \* st.session_state.generated_report
  current_standard,  \* st.session_state.current_standard
  uploads,           \* the files handed to parse_uploaded_excel so far, in order
  parsed_data,       \* the dict parse_uploaded_excel last returned
  n_runs,            \* how many times Generate Report was pressed
  messages,          \* st.error / st.success messages of the current handler
  pc,                \* position of the script: "idle", or inside generate_full_report
  loop_i,            \* index into questions of the for loop at line 292
  total_sections,    \* generate_full_report's total_sections
  completed,         \* generate_full_report's completed
  full_report,       \* generate_full_report's full_report accumulator
  progress_bar,      \* values the progress bar was given, st.progress(0) first
  service_log,       \* calls to the generation service and how each ended
  label1, label2,    \* two labels handed to normalize_key
  norm1, norm2,      \* what normalize_key returned for them (None before)
  compliance_result, \* st.session_state.compliance_result
  evaluations,       \* calls of measure_compliance to the service: prompt, response
  pdf_pc,            \* position inside create_pdf ("idle" outside)
  pdf_i,             \* index of the line of report_text being laid out
  pages,             \* pdf.pages: page number -> the texts drawn on the page
  pdf_y,             \* pdf.y: the ordinate on the current page, in mm
  pdf_bytes          \* what create_pdf returned: the encoded pages (<<>> before)

vars == << mode, step, report_data, generated_report, current_standard,
           uploads, parsed_data, n_runs, messages, pc, loop_i, total_sections,
           completed, full_report, progress_bar, service_log,
           label1, label2, norm1, norm2,
           compliance_result, evaluations,
           pdf_pc, pdf_i, pages, pdf_y, pdf_bytes >>

----------------------------------------------------------------------------
(* Characters and Python's str methods used by the program.                *)

AsciiUpper == <<"A","B","C","D","E","F","G","H","I","J","K","L","M",
                "N","O","P","Q","R","S","T","U","V","W","X","Y","Z">>

AsciiLower == <<"a","b","c","d","e","f","g","h","i","j","k","l","m",
                "n","o","p","q","r","s","t","u","v","w","x","y","z">>

AsciiDigits == {"0","1","2","3","4","5","6","7","8","9"}

Range(s) == { s[i] : i \in DOMAIN s }

AsciiLetters == Range(AsciiUpper) \cup Range(AsciiLower)

\* Greek capital sigma, small sigma and small final sigma.
CapitalSigma == "U+03A3"
SmallSigma == "U+03C3"
FinalSigma == "U+03C2"

GreekLetters == {CapitalSigma, SmallSigma, FinalSigma}

\* Characters with the Unicode property Cased, among those modelled.
Cased(ch) == ch \in AsciiLetters \cup GreekLetters

\* Characters with the Unicode property Case_Ignorable, among those modelled.
CaseIgnorable(ch) == ch \in {"'", ".", ":"}

\* str.lower() of one character that is not a capital sigma.
LowerChar(ch) ==
  IF ch \in Range(AsciiUpper)
    THEN AsciiLower[CHOOSE k \in DOMAIN AsciiUpper : AsciiUpper[k] = ch]
    ELSE ch

\* Whether the capital sigma at s[i] is in the Final_Sigma context: preceded by
\* a cased character and not followed by one, case-ignorable characters skipped.
InFinalSigmaContext(s, i) ==
  LET before == { j \in 1..(i - 1) : ~CaseIgnorable(s[j]) }
      after == { j \in (i + 1)..Len(s) : ~CaseIgnorable(s[j]) }
      prev == CHOOSE j \in before : \A k \in before : k <= j
      next == CHOOSE j \in after : \A k \in after : j <= k
  IN  /\ before # {}
      /\ Cased(s[prev])
      /\ (after = {} \/ ~Cased(s[next]))

\* str.lower(): context-free except for capital sigma.
StrLower(s) ==
  [ i \in DOMAIN s |->
      IF s[i] = CapitalSigma
        THEN IF InFinalSigmaContext(s, i) THEN FinalSigma ELSE SmallSigma
        ELSE LowerChar(s[i]) ]

\* str.isalnum() of one character.
IsAlnum(ch) == ch \in AsciiLetters \cup AsciiDigits \cup GreekLetters

\* Characters str.strip() removes.
Whitespace == {" ", "\t", "\n", "\r"}

\* str.strip().
Strip(s) ==
  LET keep == { i \in DOMAIN s : s[i] \notin Whitespace }
      lo == CHOOSE i \in keep : \A k \in keep : i <= k
      hi == CHOOSE i \in keep : \A k \in keep : k <= i
  IN  IF keep = {} THEN <<>> ELSE SubSeq(s, lo, hi)

\* dict.update: b's entries over a's.
DictUpdate(a, b) ==
  [ k \in DOMAIN a \cup DOMAIN b |-> IF k \in DOMAIN b THEN b[k] ELSE a[k] ]

\* dict.get(key, default).
DictGet(d, key, default) == IF key \in DOMAIN d THEN d[key] ELSE default

\* A value not computed yet (not a text: its element is no character).
None == <<"None">>

\* The empty dict.
EmptyDict == [ k \in {} |-> <<>> ]

----------------------------------------------------------------------------
(* Label normalisation: lines 23-54.                                       *)

NormalizeKeepAll(s) == StrLower(s)

NormalizeNoLower(s) == SelectSeq(s, IsAlnum)

\* normalize_key: lowercase, then keep the alphanumeric characters.
normalize_key(s) == SelectSeq(StrLower(s), IsAlnum)


\* predefined_keys: normalized label -> slot id (lines 29-54).
predefined_keys ==
  (<<"c","o","m","p","a","n","y","n","a","m","e">> :> "company_name") @@
  (<<"i","n","d","u","s","t","r","y">> :> "industry") @@
  (<<"o","v","e","r","v","i","e","w">> :> "overview") @@
  (<<"g","o","v","e","r","n","a","n","c","e">> :> "governance") @@
  (<<"e","t","h","i","c","s">> :> "ethics") @@
  (<<"b","u","s","i","n","e","s","s","m","o","d","e","l">> :> "business_model") @@
  (<<"s","t","r","a","t","e","g","y">> :> "strategy") @@
  (<<"s","t","a","k","e","h","o","l","d","e","r","e","n","g","a","g","e","m","e","n","t">> :> "stakeholder_engagement") @@
  (<<"m","a","t","e","r","i","a","l","i","t","y">> :> "materiality") @@
  (<<"e","n","v","i","r","o","n","m","e","n","t","a","l","p","e","r","f","o","r","m","a","n","c","e">> :> "environmental_performance") @@
  (<<"e","n","v","i","r","o","n","m","e","n","t","a","l","t","a","r","g","e","t","s">> :> "environmental_targets") @@
  (<<"s","o","c","i","a","l","p","e","r","f","o","r","m","a","n","c","e">> :> "social_performance") @@
  (<<"c","o","m","m","u","n","i","t","y","e","n","g","a","g","e","m","e","n","t">> :> "community_engagement") @@
  (<<"l","a","b","o","r","p","r","a","c","t","i","c","e","s">> :> "labor_practices") @@
  (<<"h","u","m","a","n","r","i","g","h","t","s">> :> "human_rights") @@
  (<<"s","u","p","p","l","y","c","h","a","i","n">> :> "supply_chain") @@
  (<<"s","u","p","p","l","i","e","r","e","v","a","l","u","a","t","i","o","n">> :> "supplier_evaluation") @@
  (<<"f","i","n","a","n","c","i","a","l","s","u","s","t","a","i","n","a","b","i","l","i","t","y">> :> "financial_sustainability") @@
  (<<"r","e","p","o","r","t","i","n","g","f","r","a","m","e","w","o","r","k","s">> :> "reporting_frameworks") @@
  (<<"d","a","t","a","a","s","s","u","r","a","n","c","e">> :> "data_assurance") @@
  (<<"k","p","i">> :> "kpi") @@
  (<<"f","u","t","u","r","e","g","o","a","l","s">> :> "future_goals") @@
  (<<"i","n","n","o","v","a","t","i","o","n">> :> "innovation") @@
  (<<"r","i","s","k","m","a","n","a","g","e","m","e","n","t">> :> "risk_management")

\* The test `norm in predefined_keys` and the read predefined_keys[norm] of
\* lines 72-73 and 79-80, for a label.
Resolves(label) == normalize_key(label) \in DOMAIN predefined_keys

SlotOf(label) == predefined_keys[normalize_key(label)]

----------------------------------------------------------------------------
(* The questionnaire: lines 408-433.                                       *)

questions ==
  << <<"company_name", "What is the name of your company?">>,
     <<"industry", "What industry does your company operate in?">>,
     <<"overview", "Briefly describe your company's main products or services and the regions/countries where you operate.">>,
     <<"governance", "Describe your company's governance structure, including board composition and sustainability oversight.">>,
     <<"ethics", "What policies and practices are in place to ensure ethical behavior and prevent corruption?">>,
     <<"business_model", "Describe your business model and how it integrates sustainability considerations.">>,
     <<"strategy", "What is your company's overall sustainability strategy and long-term vision? How does sustainability factor into strategic decision-making?">>,
     <<"stakeholder_engagement", "Who are the key stakeholders your company engages with (e.g., employees, customers, suppliers, community), and how are they involved in your sustainability initiatives?">>,
     <<"materiality", "Describe the materiality assessment process used to identify key sustainability issues for your company.">>,
     <<"environmental_performance", "Detail your company's environmental performance, including greenhouse gas emissions, energy consumption, water usage, waste management, and resource efficiency.">>,
     <<"environmental_targets", "What environmental targets or goals has your company set, and how are these measured?">>,
     <<"social_performance", "Describe your company's social policies and practices, including employee well-being, diversity, and inclusion.">>,
     <<"community_engagement", "How does your company contribute to and engage with the local communities in which it operates?">>,
     <<"labor_practices", "Outline your company's approach to labor practices, including workplace safety, training, and development.">>,
     <<"human_rights", "How does your company ensure compliance with human rights standards and prevent human rights abuses in your operations and supply chain?">>,
     <<"supply_chain", "Describe how your company assesses and manages sustainability risks in its supply chain.">>,
     <<"supplier_evaluation", "What criteria do you use to evaluate the sustainability performance of your suppliers?">>,
     <<"financial_sustainability", "What financial risks and opportunities related to sustainability does your company face, and how are these integrated into your financial planning?">>,
     <<"reporting_frameworks", "Which sustainability reporting frameworks or standards does your company currently use or intend to use?">>,
     <<"data_assurance", "How is the sustainability data collected, verified, and assured (e.g., through internal audits or external assurance)?">>,
     <<"kpi", "What key performance indicators (KPIs) do you monitor to track your sustainability performance?">>,
     <<"future_goals", "What are your company's sustainability goals for the next 5-10 years, and what strategies are in place to achieve them?">>,
     <<"innovation", "Describe any innovative initiatives or technologies your company is implementing to improve sustainability performance.">>,
     <<"risk_management", "How does your company manage and mitigate sustainability-related risks, including those associated with climate change?">> >>

NumQuestions == Len(questions)

QuestionKeys == { questions[i][1] : i \in 1..NumQuestions }

----------------------------------------------------------------------------
(* Spreadsheets.  pd.read_excel either raises or returns a data frame: the *)
(* first sheet row gives the column names, every later row a data row with *)
(* one cell per column.  A blank cell is read as NaN.                      *)

\* float NaN, the value of a blank cell (not a text: its element is no character).
NaN == <<"NaN">>

\* str(x) of a cell value.
PyStr(cell) == IF cell = NaN THEN <<"n","a","n">> ELSE cell

KeyColumn == <<"K","e","y">>

ValueColumn == <<"V","a","l","u","e">>

\* The "Key" column of the template (lines 490-497).
template_keys ==
  << <<"C","o","m","p","a","n","y"," ","N","a","m","e">>,
     <<"I","n","d","u","s","t","r","y">>,
     <<"O","v","e","r","v","i","e","w">>,
     <<"G","o","v","e","r","n","a","n","c","e">>,
     <<"E","t","h","i","c","s">>,
     <<"B","u","s","i","n","e","s","s"," ","M","o","d","e","l">>,
     <<"S","t","r","a","t","e","g","y">>,
     <<"S","t","a","k","e","h","o","l","d","e","r"," ","E","n","g","a","g","e","m","e","n","t">>,
     <<"M","a","t","e","r","i","a","l","i","t","y">>,
     <<"E","n","v","i","r","o","n","m","e","n","t","a","l"," ","P","e","r","f","o","r","m","a","n","c","e">>,
     <<"E","n","v","i","r","o","n","m","e","n","t","a","l"," ","T","a","r","g","e","t","s">>,
     <<"S","o","c","i","a","l"," ","P","e","r","f","o","r","m","a","n","c","e">>,
     <<"C","o","m","m","u","n","i","t","y"," ","E","n","g","a","g","e","m","e","n","t">>,
     <<"L","a","b","o","r"," ","P","r","a","c","t","i","c","e","s">>,
     <<"H","u","m","a","n"," ","R","i","g","h","t","s">>,
     <<"S","u","p","p","l","y"," ","C","h","a","i","n">>,
     <<"S","u","p","p","l","i","e","r"," ","E","v","a","l","u","a","t","i","o","n">>,
     <<"F","i","n","a","n","c","i","a","l"," ","S","u","s","t","a","i","n","a","b","i","l","i","t","y">>,
     <<"R","e","p","o","r","t","i","n","g"," ","F","r","a","m","e","w","o","r","k","s">>,
     <<"D","a","t","a"," ","A","s","s","u","r","a","n","c","e">>,
     <<"K","P","I">>,
     <<"F","u","t","u","r","e"," ","G","o","a","l","s">>,
     <<"I","n","n","o","v","a","t","i","o","n">>,
     <<"R","i","s","k"," ","M","a","n","a","g","e","m","e","n","t">> >>

\* template_df (lines 489-499): 24 labels, each with the value "".
template_df ==
  [ columns |-> <<KeyColumn, ValueColumn>>,
    rows |-> [ i \in 1..Len(template_keys) |-> <<template_keys[i], <<>>>> ] ]

\* DataFrame.to_excel then pd.read_excel of a cell: an empty text is written
\* as a blank cell and read back as NaN.
ExcelCell(cell) == IF cell = <<>> THEN NaN ELSE cell

\* The file written at lines 502-505 as pd.read_excel reads it back.
ReadExcel(df) ==
  [ kind |-> "table",
    columns |-> df.columns,
    rows |-> [ i \in DOMAIN df.rows |->
                 [ j \in DOMAIN df.rows[i] |-> ExcelCell(df.rows[i][j]) ] ] ]

TemplateFile == ReadExcel(template_df)

\* The template with the Value cells of some labels filled in.
FilledTemplate(values) ==
  ReadExcel([ columns |-> template_df.columns,
              rows |-> [ i \in DOMAIN template_df.rows |->
                  <<template_keys[i],
                    IF template_keys[i] \in DOMAIN values
                      THEN values[template_keys[i]] ELSE <<>> >> ] ])

\* A file pd.read_excel raises on.
UnreadableFile == [ kind |-> "unreadable", columns |-> <<>>, rows |-> <<>> ]

ColumnIndex(columns, name) ==
  CHOOSE j \in DOMAIN columns : columns[j] = name

\* 'Key' in df.columns and 'Value' in df.columns (line 67).
HasNamedColumns(columns) ==
  KeyColumn \in Range(columns) /\ ValueColumn \in Range(columns)

\* key_candidate of a row (lines 69, 76).
RowKey(row, columns) ==
  IF HasNamedColumns(columns)
    THEN PyStr(row[ColumnIndex(columns, KeyColumn)])
    ELSE PyStr(row[1])

\* value of a row (lines 70, 77).
RowValue(row, columns) ==
  IF HasNamedColumns(columns)
    THEN PyStr(row[ColumnIndex(columns, ValueColumn)])
    ELSE IF Len(row) > 1 THEN PyStr(row[2]) ELSE <<>>

StoreRowKeepsUnknown(result, row, columns) ==
  LET norm == normalize_key(RowKey(row, columns))
  IN  DictUpdate(result,
        (IF norm \in DOMAIN predefined_keys
           THEN predefined_keys[norm] ELSE "other") :> RowValue(row, columns))

\* One iteration of the loops at lines 68-73 and 75-80.
StoreRow(result, row, columns) ==
  LET norm == normalize_key(RowKey(row, columns))
  IN  IF norm \in DOMAIN predefined_keys
        THEN DictUpdate(result, predefined_keys[norm] :> RowValue(row, columns))
        ELSE result

\* The loops at lines 68-73 and 75-80 over the rows still to do.
RECURSIVE IngestRows(_, _, _)
IngestRows(rows, columns, result) ==
  IF rows = <<>>
    THEN result
    ELSE IngestRows(Tail(rows), columns, StoreRow(result, Head(rows), columns))

\* parse_uploaded_excel (lines 57-83): the dict returned and whether st.error
\* was called.  A row with no cell cannot come out of pd.read_excel, so the
\* only exception is the one pd.read_excel raises, before any row is stored.
parse_uploaded_excel(file) ==
  IF file.kind = "unreadable"
    THEN [ result |-> EmptyDict, error |-> TRUE ]
    ELSE [ result |-> IngestRows(file.rows, file.columns, EmptyDict),
           error |-> FALSE ]

----------------------------------------------------------------------------
(* Generation: generate_section and generate_full_report, lines 198-300.   *)

\* The most calls of one run that the model lets the generation service fail.
MaxFailures == 1

DigitChars == <<"0","1","2","3","4","5","6","7","8","9">>

\* The text the generation service returns for question i when it succeeds:
\* the decimal numeral of i, so that a section tells which question it is for.
SectionText(i) ==
  IF i < 10 THEN <<DigitChars[i + 1]>>
            ELSE <<DigitChars[(i \div 10) + 1], DigitChars[(i % 10) + 1]>>

\* The standards generate_section has an introduction for (lines 203-252).
KnownStandards ==
  {"CSRD", "GRI", "TCFD", "SASB", "Integrated Reporting (<IR>)", "CDP",
   "AA1000", "ISO 26000", "ISSB", "ESRS"}

\* prompt (lines 203-264): which introduction, the question and the answer.
Prompt(question_text, answer, standard) ==
  [ intro |-> IF standard \in KnownStandards THEN standard ELSE "generic",
    section |-> question_text,
    answer |-> answer ]

AnsweredNoStrip(data, i) == DictGet(data, questions[i][1], <<>>) # <<>>

\* report_data.get(key, "").strip() is non-empty (lines 283, 293-294).
Answered(data, i) == Strip(DictGet(data, questions[i][1], <<>>)) # <<>>

\* answered_keys (line 283), as the positions of the keys in questions.
AnsweredKeys(data) == { i \in 1..NumQuestions : Answered(data, i) }

ProgressPercentCeil(done, total) == (done * 100 + total - 1) \div total

ProgressPercentOfAll(done, total) == (done * 100) \div NumQuestions

\* progress_percent (line 298): int((completed / total_sections) * 100).  For
\* 1 <= completed <= total_sections <= 24 the two double roundings leave the
\* integer part that of 100 * completed / total_sections.
ProgressPercent(done, total) == (done * 100) \div total

\* f"# {section_content}\n\n" (line 296).
Block(content) == <<"#", " ">> \o content \o <<"\n", "\n">>

\* The review stage is shown (line 543).
ReviewStage == mode \in {"questionnaire", "upload"} /\ step >= NumQuestions

\* The report is shown, with the buttons under it (lines 543, 581).
ReportShown == ReviewStage /\ generated_report # <<>>

runVars == << pc, loop_i, total_sections, completed, full_report,
              progress_bar, service_log >>

sessionVars == << mode, step, report_data >>

uploadVars == << uploads, parsed_data >>

normVars == << label1, label2, norm1, norm2 >>

evalVars == << compliance_result, evaluations >>

pdfVars == << pdf_pc, pdf_i, pages, pdf_y, pdf_bytes >>

GenerateNoInputKeepsReport ==
  /\ pc = "idle"
  /\ ReviewStage
  /\ AnsweredKeys(report_data) = {}
  /\ current_standard' = "GRI"
  /\ n_runs' = n_runs + 1
  /\ total_sections' = 0
  /\ completed' = 0
  /\ loop_i' = 0
  /\ full_report' = <<>>
  /\ progress_bar' = <<>>
  /\ service_log' = <<>>
  /\ messages' = <<"error: No responses provided.",
                   "success: GRI report generated successfully!">>
  /\ UNCHANGED << pc, generated_report, sessionVars, uploadVars, normVars,
                  evalVars, pdfVars >>

\* "Generate Report" pressed with no answered slot (lines 572-579, 281-287).
GenerateNoInput ==
  /\ pc = "idle"
  /\ ReviewStage
  /\ AnsweredKeys(report_data) = {}
  /\ current_standard' = "GRI"
  /\ n_runs' = n_runs + 1
  /\ total_sections' = 0
  /\ completed' = 0
  /\ loop_i' = 0
  /\ full_report' = <<>>
  /\ progress_bar' = <<>>
  /\ service_log' = <<>>
  /\ generated_report' = <<>>
  /\ messages' = <<"error: No responses provided.",
                   "success: GRI report generated successfully!">>
  /\ UNCHANGED << pc, sessionVars, uploadVars, normVars,
                  evalVars, pdfVars >>

\* "Generate Report" pressed with an answered slot (lines 572-578, 281-290).
GenerateStart ==
  /\ pc = "idle"
  /\ ReviewStage
  /\ AnsweredKeys(report_data) # {}
  /\ current_standard' = "GRI"
  /\ n_runs' = n_runs + 1
  /\ total_sections' = Cardinality(AnsweredKeys(report_data))
  /\ completed' = 0
  /\ loop_i' = 1
  /\ full_report' = <<>>
  /\ progress_bar' = <<0>>
  /\ service_log' = <<>>
  /\ messages' = <<>>
  /\ pc' = "loop"
  /\ UNCHANGED << generated_report, sessionVars, uploadVars, normVars,
                  evalVars, pdfVars >>

\* An iteration of the loop at line 292 for a slot with no answer (line 294).
LoopSkip ==
  /\ pc = "loop"
  /\ loop_i <= NumQuestions
  /\ ~Answered(report_data, loop_i)
  /\ loop_i' = loop_i + 1
  /\ UNCHANGED << pc, total_sections, completed, full_report, progress_bar,
                  service_log, generated_report, current_standard, n_runs,
                  messages, sessionVars, uploadVars, normVars,
                  evalVars, pdfVars >>

\* generate_section is entered and calls the service (lines 295, 259-269).
CallService ==
  /\ pc = "loop"
  /\ loop_i <= NumQuestions
  /\ Answered(report_data, loop_i)
  /\ service_log' = Append(service_log,
       [ event |-> "call", slot |-> loop_i,
         prompt |-> Prompt(questions[loop_i][2],
                           DictGet(report_data, questions[loop_i][1], <<>>),
                           current_standard) ])
  /\ pc' = "call"
  /\ UNCHANGED << loop_i, total_sections, completed, full_report, progress_bar,
                  generated_report, current_standard, n_runs, messages,
                  sessionVars, uploadVars, normVars,
                  evalVars, pdfVars >>

\* Lines 296-299, after generate_section returned content.
AppendSection(content) ==
  /\ full_report' = full_report \o Block(content)
  /\ completed' = completed + 1
  /\ progress_bar' =
       Append(progress_bar, ProgressPercent(completed + 1, total_sections))
  /\ loop_i' = loop_i + 1
  /\ pc' = "loop"

\* The service answers (line 270) and the section is appended.
ServiceReturns ==
  /\ pc = "call"
  /\ service_log' = Append(service_log,
       [ event |-> "return", slot |-> loop_i ])
  /\ AppendSection(SectionText(loop_i))
  /\ UNCHANGED << total_sections, generated_report, current_standard, n_runs,
                  messages, sessionVars, uploadVars, normVars,
                  evalVars, pdfVars >>

\* The service call raises (lines 271-273): the error is shown, generate_section
\* returns "" and the loop goes on.
ServiceRaises ==
  /\ pc = "call"
  /\ Cardinality({ k \in DOMAIN service_log :
                     service_log[k].event = "raise" }) < MaxFailures
  /\ service_log' = Append(service_log,
       [ event |-> "raise", slot |-> loop_i ])
  /\ messages' = Append(messages,
                        "error: An error occurred during report generation")
  /\ AppendSection(<<>>)
  /\ UNCHANGED << total_sections, generated_report, current_standard, n_runs,
                  sessionVars, uploadVars, normVars,
                  evalVars, pdfVars >>

\* The loop is over: generate_full_report returns and main stores the text
\* (lines 300, 576-579).
LoopDone ==
  /\ pc = "loop"
  /\ loop_i > NumQuestions
  /\ generated_report' = full_report
  /\ messages' = Append(messages, "success: GRI report generated successfully!")
  /\ pc' = "idle"
  /\ UNCHANGED << loop_i, total_sections, completed, full_report, progress_bar,
                  service_log, current_standard, n_runs,
                  sessionVars, uploadVars, normVars,
                  evalVars, pdfVars >>

----------------------------------------------------------------------------
(* File upload: main, lines 516-522, and the review stage the same script  *)
(* run goes on to show, lines 543-548.                                     *)

\* The most files one session uploads in the model.
MaxUploads == 2

\* Lines 545-548 with no edit by the user: every question's text area shows
\* report_data.get(k, "") and its value is stored back under k.
ReviewStore(data) ==
  [ k \in DOMAIN data \cup QuestionKeys |-> DictGet(data, k, <<>>) ]

MergeReplacing(data, parsed) == parsed

\* st.session_state.report_data.update(parsed_data) (line 519).
Merge(data, parsed) == DictUpdate(data, parsed)

\* A file is uploaded in upload mode: it is parsed and merged, the step jumps
\* to the review stage, which then shows and stores every answer.
Upload(file) ==
  /\ pc = "idle"
  /\ mode = "upload"
  /\ Len(uploads) < MaxUploads
  /\ LET parsed == parse_uploaded_excel(file)
     IN  /\ uploads' = Append(uploads, file)
         /\ parsed_data' = parsed.result
         /\ report_data' = ReviewStore(Merge(report_data, parsed.result))
         /\ messages' =
              (IF parsed.error THEN <<"error: Error processing Excel file">>
                               ELSE <<>>)
              \o <<"success: File processed and responses filled!">>
  /\ step' = NumQuestions
  /\ UNCHANGED << mode, generated_report, current_standard, n_runs,
                  runVars, normVars,
                  evalVars, pdfVars >>

----------------------------------------------------------------------------
(* normalize_key applied to a label and to labels that differ from it only *)
(* in letter case or in characters that are neither letters nor digits.    *)

\* The longest label.
MaxLabelLen == 3

LabelChars == { "a", "A", "1", "-", "'", CapitalSigma, SmallSigma }

\* Two characters are the same letter, in the same or in different cases.
SameUpToCase(c, d) ==
  \/ c = d
  \/ \E k \in DOMAIN AsciiUpper :
       {c, d} \subseteq {AsciiUpper[k], AsciiLower[k]}
  \/ {c, d} \subseteq {CapitalSigma, SmallSigma, FinalSigma}

\* A character that is neither a letter nor a digit.
Punctuation(ch) == ch \notin AsciiDigits \cup AsciiLetters \cup GreekLetters

otherVars == << mode, step, report_data, generated_report, current_standard,
                uploads, parsed_data, n_runs, messages,
                runVars, evalVars, pdfVars >>

\* normalize_key is applied to the first label; the second starts equal to it.
NormalizeFirst ==
  /\ norm1 = None
  /\ norm1' = normalize_key(label1)
  /\ label2' = label1
  /\ norm2' = normalize_key(label1)
  /\ UNCHANGED << label1, otherVars >>

\* The second label becomes t and normalize_key is applied to it.
NormalizeSecond(t) ==
  /\ norm1 # None
  /\ label2' = t
  /\ norm2' = normalize_key(t)
  /\ UNCHANGED << label1, norm1, otherVars >>

\* The second label with the case of one letter changed.
ChangeCase ==
  \E i \in DOMAIN label2, ch \in LabelChars :
    /\ ch # label2[i]
    /\ SameUpToCase(label2[i], ch)
    /\ NormalizeSecond([ label2 EXCEPT ![i] = ch ])

\* The second label with a punctuation character inserted.
InsertPunctuation ==
  \E i \in 0..Len(label2), ch \in LabelChars :
    /\ Len(label2) < MaxLabelLen
    /\ Punctuation(ch)
    /\ NormalizeSecond(SubSeq(label2, 1, i) \o <<ch>>
                       \o SubSeq(label2, i + 1, Len(label2)))

\* The second label with a punctuation character removed.
RemovePunctuation ==
  \E i \in DOMAIN label2 :
    /\ Punctuation(label2[i])
    /\ NormalizeSecond(SubSeq(label2, 1, i - 1)
                       \o SubSeq(label2, i + 1, Len(label2)))

----------------------------------------------------------------------------
(* Specifications.                                                         *)

\* A session that has just started, before any button is pressed
\* (lines 444-455).
FreshSession ==
  /\ mode = "none"
  /\ step = 0
  /\ report_data = EmptyDict
  /\ generated_report = <<>>
  /\ current_standard = ""
  /\ compliance_result = EmptyDict

NoUpload ==
  /\ uploads = <<>>
  /\ parsed_data = EmptyDict

NoRun ==
  /\ pc = "idle"
  /\ n_runs = 0
  /\ loop_i = 0
  /\ total_sections = 0
  /\ completed = 0
  /\ full_report = <<>>
  /\ progress_bar = <<>>
  /\ service_log = <<>>
  /\ messages = <<>>

NoLabels ==
  /\ label1 = None
  /\ label2 = None
  /\ norm1 = None
  /\ norm2 = None

\* Evaluate with AI was not pressed.
NoEvaluation == evaluations = <<>>

\* create_pdf is not running.
NoPdf ==
  /\ pdf_pc = "idle"
  /\ pdf_i = 0
  /\ pages = EmptyDict
  /\ pdf_y = 0
  /\ pdf_bytes = <<>>

\* --- generation runs over a family of answer maps ---

\* The first answered question is among the first MaxFirst.
MaxFirst == 2

\* The answered questions are every stride-th one of a range, stride <= MaxStride.
MaxStride == 2

AnsweredSets ==
  { { i \in lo..hi : (i - lo) % stride = 0 } :
      lo \in 1..MaxFirst, hi \in 0..NumQuestions, stride \in 1..MaxStride }

\* The answer map in which the questions of S are answered (with and without
\* surrounding white space) and the others are missing, empty or blank.
AnswersOf(S) ==
  LET present == { i \in 1..NumQuestions : i \in S \/ i % 3 # 0 }
      value(i) == IF i \in S
                    THEN IF i % 2 = 0 THEN <<"a">> ELSE <<" ", "a", "\n">>
                    ELSE IF i % 3 = 1 THEN <<>> ELSE <<" ", "\t">>
      index(k) == CHOOSE i \in 1..NumQuestions : questions[i][1] = k
  IN  [ k \in { questions[i][1] : i \in present } |-> value(index(k)) ]

\* A document a previous run left: the one section of question 1.
PreviousReport == Block(SectionText(1))

\* The review page, with the answer map generate_full_report is about to be
\* given.  The function reads the map with get(key, ""), so the maps drawn
\* here may lack keys; in the application the review page has stored a
\* (possibly empty) text under every questionnaire key by then, which the
\* function treats in the same way.
InitGen ==
  /\ mode = "upload"
  /\ step = NumQuestions
  /\ report_data \in { AnswersOf(S) : S \in AnsweredSets }
  /\ generated_report \in { <<>>, PreviousReport }
  /\ current_standard = ""
  /\ compliance_result = EmptyDict
  /\ NoUpload /\ NoRun /\ NoLabels /\ NoEvaluation /\ NoPdf

NextGen ==
  \/ n_runs = 0 /\ GenerateNoInput
  \/ n_runs = 0 /\ GenerateStart
  \/ LoopSkip
  \/ CallService
  \/ ServiceReturns
  \/ ServiceRaises
  \/ LoopDone

SpecGen == InitGen /\ [][NextGen]_vars

\* --- sheets ---

\* The most data rows of a sheet.
MaxRows == 2

TableLabels ==
  { <<"K","P","I">>, <<"k",".","p","-","i">>,
    <<"I","n","d","u","s","t","r","y">>, <<"F","o","o">> }

TableValues == { NaN, <<"x">>, <<"y">> }

\* Column names: named, named in the other order, unnamed, a single column.
TableShapes ==
  { <<KeyColumn, ValueColumn>>, <<ValueColumn, KeyColumn>>,
    << <<"A">>, <<"B">> >>, << <<"A">> >> }

\* The data rows a sheet with these columns can have: a label where the
\* program reads the key, a value (or a blank) where it reads the value.
TableRows(columns) ==
  IF Len(columns) = 1
    THEN { <<l>> : l \in TableLabels }
    ELSE IF columns[1] = ValueColumn
      THEN { <<v, l>> : v \in TableValues, l \in TableLabels }
      ELSE { <<l, v>> : l \in TableLabels, v \in TableValues }

Tables ==
  UNION { { [ kind |-> "table", columns |-> c, rows |-> r ] :
                   r \in [ 1..m -> TableRows(c) ] } : c \in TableShapes, m \in 0..MaxRows }

\* --- uploads in a session ---

\* The questionnaire was answered up to at most this question before the
\* user went back, question by question, to the welcome page (Back leaves
\* the answers and returns to the welcome page only from the first question,
\* so step is 0 there) and chose the upload.
MaxPrefix == 2

Acme == <<"A","c","m","e">>

Tech == <<"T","e","c","h">>

\* The template filled as in the round-trip example.
AcmeTechFile ==
  FilledTemplate((<<"C","o","m","p","a","n","y"," ","N","a","m","e">> :> Acme)
                 @@ (<<"I","n","d","u","s","t","r","y">> :> Tech))

\* A sheet with two unnamed columns.
RetailFile ==
  [ kind |-> "table",
    columns |-> << <<"A">>, <<"B">> >>,
    rows |-> << << <<"I","n","d","u","s","t","r","y">>, <<"R","e","t","a","i","l">> >>,
                << <<"F","o","o">>, <<"x">> >>,
                << <<"K","P","I">>, NaN >> >> ]

\* A sheet with named columns in the other order and a label given twice.
SwappedFile ==
  [ kind |-> "table",
    columns |-> << ValueColumn, KeyColumn >>,
    rows |-> << << <<"x">>, <<"K","P","I">> >>,
                << <<"y">>, <<"k",".","p","-","i">> >>,
                << <<" ">>, <<"c","o","m","p","a","n","y","_","n","a","m","e">> >> >> ]

\* A sheet with a single column.
OneColumnFile ==
  [ kind |-> "table",
    columns |-> << <<"A">> >>,
    rows |-> << << <<"E","t","h","i","c","s">> >>, << <<"F","o","o">> >> >> ]

\* A sheet with the two named columns and no data row.
HeaderOnlyFile ==
  [ kind |-> "table", columns |-> << KeyColumn, ValueColumn >>, rows |-> <<>> ]

\* The sheets with one data row (a second value only matters between the
\* rows of one sheet, so one value and the blank are used here).
OneRowTables ==
  UNION { { [ kind |-> "table", columns |-> c, rows |-> <<r>> ] :
              r \in { row \in TableRows(c) : <<"y">> \notin Range(row) } } :
          c \in TableShapes }

SessionFiles ==
  { TemplateFile, AcmeTechFile, UnreadableFile, RetailFile, SwappedFile,
    OneColumnFile, HeaderOnlyFile } \cup OneRowTables

PrefixAnswers(p) == [ k \in { questions[i][1] : i \in 1..p } |-> <<"a">> ]

InitIngest ==
  /\ mode = "upload"
  /\ step = 0
  /\ report_data \in { PrefixAnswers(p) : p \in 0..MaxPrefix }
  /\ generated_report = <<>>
  /\ current_standard = ""
  /\ compliance_result = EmptyDict
  /\ NoUpload /\ NoRun /\ NoLabels /\ NoEvaluation /\ NoPdf

NextIngest == \E file \in SessionFiles : Upload(file)

SpecIngest == InitIngest /\ [][NextIngest]_vars

\* --- parse_uploaded_excel over small sheets ---

InitParse ==
  /\ mode = "upload"
  /\ step = 0
  /\ report_data = EmptyDict
  /\ generated_report = <<>>
  /\ current_standard = ""
  /\ compliance_result = EmptyDict
  /\ NoUpload /\ NoRun /\ NoLabels /\ NoEvaluation /\ NoPdf

NextParse == \E file \in Tables \cup {UnreadableFile} : uploads = <<>> /\ Upload(file)

SpecParse == InitParse /\ [][NextParse]_vars

\* --- normalize_key over short labels ---

Labels == UNION { [ 1..m -> LabelChars ] : m \in 0..MaxLabelLen }

InitNorm ==
  /\ label1 \in Labels
  /\ label2 = None
  /\ norm1 = None
  /\ norm2 = None
  /\ FreshSession /\ NoUpload /\ NoRun /\ NoEvaluation /\ NoPdf

NextNorm ==
  \/ NormalizeFirst
  \/ norm1 # None /\ ChangeCase
  \/ norm1 # None /\ InsertPunctuation
  \/ norm1 # None /\ RemovePunctuation

SpecNorm == InitNorm /\ [][NextNorm]_vars
----------------------------------------------------------------------------
(* Rendering: class PDF and create_pdf, lines 124-192.                     *)
(*                                                                         *)
(* A page (pdf.pages[n]) is the sequence of the texts drawn on it, each     *)
(* with its font; the operators and coordinates around a text in the page   *)
(* content are ASCII and are left out.  Lengths are in mm.                  *)

\* En-dash, em-dash and right single quotation mark; a left double
\* quotation mark, which Latin-1 has not either; e acute, which it has.
EnDash == "U+2013"

EmDash == "U+2014"

RightQuote == "U+2019"

LeftDoubleQuote == "U+201C"

EAcute == "U+00E9"

\* Of the characters used here, those Latin-1 cannot encode.
NotLatin1 == { EnDash, EmDash, RightQuote, LeftDoubleQuote }

\* datetime.now() on the day of the run (lines 132, 149, 156).
current_year == <<"2","0","2","6">>

DateText ==
  <<"D","a","t","e",":"," ","N","o","v","e","m","b","e","r"," ","0","6",",",
    " ">> \o current_year

\* A4 height, the margins of line 128 and the cell height used throughout.
PageHeight == 297

TopMargin == 20

\* set_auto_page_break(auto=True, margin=20), line 148.
PageBreakTrigger == PageHeight - 20

CellHeight == 10

\* The characters of a line of body text that fit the text width; stands
\* for the widths of the Times metrics in multi_cell's line breaking.
WrapColumns == 16

\* The names of the standards given to create_pdf, as texts.
StandardText(standard) ==
  CASE standard = "GRI" -> <<"G","R","I">>
    [] standard = "A(en-dash)B" -> <<"A", EnDash, "B">>
    [] OTHER -> <<>>

Item(font, text) == [ font |-> font, text |-> text ]

\* FPDF._escape: backslash and parentheses get a backslash.
EscapePdf(text) ==
  LET escaped(c) == IF c \in {"\\", "(", ")"} THEN <<"\\", c>> ELSE <<c>>
      F[k \in 0..Len(text)] ==
        IF k = 0 THEN <<>> ELSE F[k - 1] \o escaped(text[k])
  IN  F[Len(text)]

\* header (lines 131-136) and footer (lines 138-141) of page n.
HeaderItem ==
  Item("B12", current_year \o <<" ","S","u","s","t","a","i","n","a","b","i",
                                "l","i","t","y"," ","R","e","p","o","r","t">>)

PageNumberText(n) ==
  IF n < 10 THEN <<DigitChars[n + 1]>>
            ELSE <<DigitChars[(n \div 10) + 1], DigitChars[(n % 10) + 1]>>

FooterItem(n) == Item("I8", <<"P","a","g","e"," ">> \o PageNumberText(n))

NumPages(doc) == Cardinality(DOMAIN doc.pages)

\* The text is put on the current page.
PutText(doc, font, text) ==
  [ doc EXCEPT !.pages[NumPages(doc)] = Append(@, Item(font, EscapePdf(text))) ]

\* The current page is closed with its footer.
EndPage(doc) ==
  [ doc EXCEPT !.pages[NumPages(doc)] = Append(@, FooterItem(NumPages(doc))) ]

\* add_page: the footer of the page before, a new page, its header, which
\* is a cell of height 10 and ln(5).
AddPage(doc) ==
  LET closed == IF NumPages(doc) = 0 THEN doc ELSE EndPage(doc)
      n == NumPages(doc) + 1
  IN  [ pages |-> [ k \in 1..n |-> IF k = n THEN <<HeaderItem>>
                                     ELSE closed.pages[k] ],
        y |-> TopMargin + CellHeight + 5 ]

\* cell(0, 10, text, ln=True): a page break first when the cell would pass
\* the trigger; text that is empty draws nothing but takes the height.
Cell(doc, font, text) ==
  LET at == IF doc.y + CellHeight > PageBreakTrigger THEN AddPage(doc) ELSE doc
      drawn == IF text = <<>> THEN at ELSE PutText(at, font, text)
  IN  [ drawn EXCEPT !.y = @ + CellHeight ]

\* ln(h).
Ln(doc, h) == [ doc EXCEPT !.y = @ + h ]

RECURSIVE WrapFrom(_, _)
\* multi_cell's line breaking of s from position j on: a line ends where the
\* next character would not fit, at the last space before if there is one
\* (the space is dropped).
WrapFrom(s, j) ==
  IF Len(s) - j + 1 <= WrapColumns THEN << SubSeq(s, j, Len(s)) >>
  ELSE
    LET i == j + WrapColumns
        spaces == { k \in j..i : s[k] = " " }
        sep == CHOOSE k \in spaces : \A m \in spaces : m <= k
    IN  IF spaces = {}
          THEN << SubSeq(s, j, i - 1) >> \o WrapFrom(s, i)
          ELSE << SubSeq(s, j, sep - 1) >> \o WrapFrom(s, sep + 1)

RECURSIVE Cells(_, _, _)
\* One cell for each line of lines.
Cells(doc, font, lines) ==
  IF lines = <<>> THEN doc
  ELSE Cells(Cell(doc, font, Head(lines)), font, Tail(lines))

\* multi_cell(0, 10, text): carriage returns are removed and the text is
\* drawn line by line.
MultiCell(doc, font, text) ==
  Cells(doc, font, WrapFrom(SelectSeq(text, LAMBDA c : c # "\r"), 1))

RECURSIVE SplitFrom(_, _)
\* The lines of text from position j on.
SplitFrom(text, j) ==
  LET breaks == { k \in j..Len(text) : text[k] = "\n" }
      first == CHOOSE k \in breaks : \A m \in breaks : k <= m
  IN  IF breaks = {} THEN << SubSeq(text, j, Len(text)) >>
      ELSE << SubSeq(text, j, first - 1) >> \o SplitFrom(text, first + 1)

\* str.split("\n").
SplitLines(text) == SplitFrom(text, 1)

\* len(s) - len(s.lstrip("#")) and s.lstrip("#") (lines 172-173).
HeadingLevel(s) ==
  LET other == { k \in DOMAIN s : s[k] # "#" }
  IN  IF other = {} THEN Len(s)
      ELSE (CHOOSE k \in other : \A m \in other : k <= m) - 1

LStripHash(s) == SubSeq(s, HeadingLevel(s) + 1, Len(s))

\* The font of a heading of the level (lines 174-179).
HeadingFont(level) ==
  IF level = 1 THEN "B16" ELSE IF level = 2 THEN "B14" ELSE "B12"

RECURSIVE RemoveBold(_)
\* str.replace("**", "") (line 184).
RemoveBold(s) ==
  IF Len(s) < 2 THEN s
  ELSE IF s[1] = "*" /\ s[2] = "*" THEN RemoveBold(SubSeq(s, 3, Len(s)))
  ELSE <<s[1]>> \o RemoveBold(Tail(s))

\* One iteration of the loop at line 165.
LayOutLine(doc, line) ==
  LET line_stripped == Strip(line)
  IN  IF line_stripped = <<>> THEN Ln(doc, 2)
      ELSE IF line_stripped[1] = "#"
        THEN Ln(Cell(doc, HeadingFont(HeadingLevel(line_stripped)),
                     Strip(LStripHash(line_stripped))), 2)
        ELSE Ln(MultiCell(doc, "12", RemoveBold(line_stripped)), 2)

\* f"{current_year} - {company_name} - {standard} Report" (line 152).
TitleText(company_name, standard) ==
  current_year \o <<" ","-"," ">> \o company_name \o <<" ","-"," ">>
    \o StandardText(standard) \o <<" ","R","e","p","o","r","t">>

\* Lines 146-163: the first page with the title and the date.
TitleBlock(company_name, standard) ==
  LET first == AddPage([ pages |-> <<>>, y |-> 0 ])
      title == Ln(Cell(first, "B16", TitleText(company_name, standard)), 5)
      date == Ln(Cell(title, "12", DateText), 10)
  IN  Ln(date, 10)

\* str.replace of one character by another.
ReplaceChar(text, old, new) ==
  [ k \in DOMAIN text |-> IF text[k] = old THEN new ELSE text[k] ]

\* The three replacements of lines 187-192 on the content of a page.
SanitizePage(page) ==
  [ k \in DOMAIN page |->
      [ page[k] EXCEPT !.text =
          ReplaceChar(ReplaceChar(ReplaceChar(@, EnDash, "-"), EmDash, "-"),
                      RightQuote, "'") ] ]

\* The replacements on page 1 alone.
SanitizeFirstPageOnly(pgs) ==
  [ n \in DOMAIN pgs |-> IF n = 1 THEN SanitizePage(pgs[n]) ELSE pgs[n] ]

\* The loop at line 187: every page of pdf.pages.
SanitizePages(pgs) == [ n \in DOMAIN pgs |-> SanitizePage(pgs[n]) ]

\* A page can be encoded by output (Latin-1).
Encodable(page) ==
  \A k \in DOMAIN page : \A m \in DOMAIN page[k].text :
    page[k].text[m] \notin NotLatin1

\* --- create_pdf, step by step ---

\* The arguments of the call at lines 589-593.
PdfCompanyName ==
  DictGet(report_data, "company_name", <<"c","o","m","p","a","n","y">>)

PdfLines == SplitLines(generated_report)

PdfDoc == [ pages |-> pages, y |-> pdf_y ]

\* create_pdf raises for these arguments: a character of the title or of
\* the report is left on a page that output cannot encode.
CreatePdfRaises ==
  LET given == TitleText(PdfCompanyName, current_standard) \o generated_report
  IN  \E k \in DOMAIN given : given[k] \in NotLatin1 \ { EnDash, EmDash, RightQuote }

\* create_pdf is entered: lines 146-164.
PdfStart ==
  /\ pc = "idle"
  /\ pdf_pc = "idle"
  /\ ReportShown
  /\ LET doc == TitleBlock(PdfCompanyName, current_standard)
     IN  pages' = doc.pages /\ pdf_y' = doc.y
  /\ pdf_i' = 1
  /\ pdf_bytes' = <<>>
  /\ pdf_pc' = "lines"
  /\ UNCHANGED << generated_report, current_standard, n_runs, messages,
                  sessionVars, runVars, uploadVars, normVars, evalVars >>

\* An iteration of the loop at line 165.
PdfLine ==
  /\ pdf_pc = "lines"
  /\ pdf_i <= Len(PdfLines)
  /\ LET doc == LayOutLine(PdfDoc, PdfLines[pdf_i])
     IN  pages' = doc.pages /\ pdf_y' = doc.y
  /\ pdf_i' = pdf_i + 1
  /\ UNCHANGED << pdf_pc, pdf_bytes, generated_report, current_standard,
                  n_runs, messages, sessionVars, runVars, uploadVars, normVars,
                  evalVars >>

\* The loop is over; the pass over the pages (lines 187-192).
PdfSanitize ==
  /\ pdf_pc = "lines"
  /\ pdf_i > Len(PdfLines)
  /\ pages' = SanitizePages(pages)
  /\ pdf_pc' = "sanitized"
  /\ UNCHANGED << pdf_i, pdf_y, pdf_bytes, generated_report, current_standard,
                  n_runs, messages, sessionVars, runVars, uploadVars, normVars,
                  evalVars >>

\* output (line 193) closes the last page with its footer and encodes the
\* pages; create_pdf returns the bytes.
PdfOutput ==
  /\ pdf_pc = "sanitized"
  /\ \A n \in DOMAIN pages : Encodable(pages[n])
  /\ pages' = EndPage(PdfDoc).pages
  /\ pdf_bytes' = pages'
  /\ pdf_pc' = "returned"
  /\ UNCHANGED << pdf_i, pdf_y, generated_report, current_standard,
                  n_runs, messages, sessionVars, runVars, uploadVars, normVars,
                  evalVars >>

\* output raises on a character that Latin-1 has not: create_pdf fails.
PdfOutputRaises ==
  /\ pdf_pc = "sanitized"
  /\ \E n \in DOMAIN pages : ~Encodable(pages[n])
  /\ pages' = EndPage(PdfDoc).pages
  /\ pdf_pc' = "raised"
  /\ UNCHANGED << pdf_i, pdf_y, pdf_bytes, generated_report, current_standard,
                  n_runs, messages, sessionVars, runVars, uploadVars, normVars,
                  evalVars >>

\* --- rendering over a family of reports ---

RECURSIVE SectionsWith(_, _)
\* The blocks of sections 1..n, each section text followed by suffix.
SectionsWith(n, suffix) ==
  IF n = 0 THEN <<>>
  ELSE SectionsWith(n - 1, suffix) \o Block(SectionText(n) \o suffix)

\* A heading with an en-dash, a paragraph with bold markers, a right
\* quotation mark and an em-dash, headings of levels 2 and 3, an e acute.
MarkupReport ==
  <<"#"," ","A"," ",EnDash," ","B","\n","\n",
    "I","t",RightQuote,"s"," ","*","*","b","o","l","d","*","*"," ",EmDash,
    " ","(","x",")","\n",
    " ","#","#"," ","S","u","b"," ","\n",
    "#","#","#","T","h","i","r","d",RightQuote,"s","\n",
    "#","\n","*","*","\n",
    "c","a","f",EAcute>>

\* 24 sections, which take two pages, with the three characters in each.
LongReport == SectionsWith(NumQuestions, <<EnDash, EmDash, RightQuote>>)

\* A paragraph longer than a line, and one without a space.
WideReport ==
  [ k \in 1..(2 * WrapColumns + 5) |->
      IF k % 7 = 0 THEN " " ELSE IF k % 5 = 0 THEN EnDash ELSE "a" ]
    \o <<"\n">> \o [ k \in 1..(WrapColumns + 3) |-> RightQuote ]

\* A report with a character that is none of the three and not in Latin-1.
QuotedReport == <<"#"," ",LeftDoubleQuote,"x",RightQuote,"\n","y"," ",EmDash>>

PdfReports == { MarkupReport, LongReport, WideReport, QuotedReport }

CompanyNames ==
  { <<>>, <<"A","c","m","e">>, <<"A",EnDash,"B",EmDash,"C",RightQuote,"s">> }

InitPdf ==
  /\ mode = "upload"
  /\ step = NumQuestions
  /\ report_data \in { [ ReviewStore(EmptyDict) EXCEPT !["company_name"] = name ] :
                         name \in CompanyNames }
  /\ generated_report \in PdfReports
  /\ current_standard \in { "GRI", "A(en-dash)B" }
  /\ compliance_result = EmptyDict
  /\ NoUpload /\ NoRun /\ NoLabels /\ NoEvaluation /\ NoPdf

NextPdf == PdfStart \/ PdfLine \/ PdfSanitize \/ PdfOutput \/ PdfOutputRaises

SpecPdf == InitPdf /\ [][NextPdf]_vars

----------------------------------------------------------------------------
(* Evaluation: measure_compliance, lines 306-394, and json.loads.          *)
(*                                                                         *)
(* A parsed JSON value is a record tagged with its Python type: None,      *)
(* bool, int, float (kept as the text of the literal), str, list, dict.    *)
(* A character outside ASCII is written by its code point, "U+2019".       *)

JNull == [ t |-> "null" ]

JBool(b) == [ t |-> "bool", v |-> b ]

JInt(n) == [ t |-> "int", v |-> n ]

JFloat(text) == [ t |-> "float", v |-> text ]

JStr(text) == [ t |-> "str", v |-> text ]

JList(items) == [ t |-> "list", v |-> items ]

JDict(members) == [ t |-> "dict", v |-> members ]

\* The decoder raised.
JsonError == [ ok |-> FALSE, val |-> JNull, next |-> 0 ]

JsonOk(value, next) == [ ok |-> TRUE, val |-> value, next |-> next ]

\* The white space the decoder skips between tokens.
JsonWhitespace == {" ", "\t", "\n", "\r"}

RECURSIVE SkipWhitespace(_, _)
SkipWhitespace(s, i) ==
  IF i <= Len(s) /\ s[i] \in JsonWhitespace THEN SkipWhitespace(s, i + 1) ELSE i

\* s has the characters of word at position i.
HasWord(s, i, word) ==
  /\ i + Len(word) - 1 <= Len(s)
  /\ SubSeq(s, i, i + Len(word) - 1) = word

IsDigit(c) == c \in AsciiDigits

DigitValue(c) == CHOOSE d \in 0..9 : DigitChars[d + 1] = c

RECURSIVE DigitsEnd(_, _)
\* The first position from i on that holds no digit.
DigitsEnd(s, i) ==
  IF i <= Len(s) /\ IsDigit(s[i]) THEN DigitsEnd(s, i + 1) ELSE i

RECURSIVE DecimalValue(_)
DecimalValue(digits) ==
  IF digits = <<>> THEN 0
  ELSE 10 * DecimalValue(SubSeq(digits, 1, Len(digits) - 1))
         + DigitValue(digits[Len(digits)])

\* A number at position i: -?(0|[1-9]\d*)(\.\d+)?([eE][-+]?\d+)?, an int
\* when it has neither fraction nor exponent.
ParseNumber(s, i) ==
  LET start == IF i <= Len(s) /\ s[i] = "-" THEN i + 1 ELSE i
      intEnd == IF start <= Len(s) /\ s[start] = "0" THEN start + 1
                ELSE DigitsEnd(s, start)
      fracEnd == IF /\ intEnd < Len(s)
                    /\ s[intEnd] = "."
                    /\ IsDigit(s[intEnd + 1])
                   THEN DigitsEnd(s, intEnd + 1) ELSE intEnd
      expDigits == IF fracEnd <= Len(s) /\ s[fracEnd] \in {"e", "E"}
                     THEN IF fracEnd < Len(s) /\ s[fracEnd + 1] \in {"-", "+"}
                            THEN fracEnd + 2 ELSE fracEnd + 1
                     ELSE 0
      expEnd == IF expDigits > 0 /\ expDigits <= Len(s) /\ IsDigit(s[expDigits])
                  THEN DigitsEnd(s, expDigits) ELSE fracEnd
      magnitude == DecimalValue(SubSeq(s, start, intEnd - 1))
  IN  IF intEnd = start THEN JsonError
      ELSE IF expEnd = intEnd
        THEN JsonOk(JInt(IF start > i THEN 0 - magnitude ELSE magnitude), intEnd)
        ELSE JsonOk(JFloat(SubSeq(s, i, expEnd - 1)), expEnd)

\* The character a backslash escape stands for.
Unescaped(c) ==
  CASE c = "n" -> "\n"
    [] c = "t" -> "\t"
    [] c = "r" -> "\r"
    [] c = "b" -> "U+0008"
    [] c = "f" -> "U+000C"
    [] OTHER -> c

HexDigits == AsciiDigits \cup {"a","b","c","d","e","f","A","B","C","D","E","F"}

UpperHex(c) ==
  CASE c = "a" -> "A" [] c = "b" -> "B" [] c = "c" -> "C"
    [] c = "d" -> "D" [] c = "e" -> "E" [] c = "f" -> "F" [] OTHER -> c

\* The character \uXXXX stands for, written by its code point.
CodePoint(hex) ==
  "U+" \o UpperHex(hex[1]) \o UpperHex(hex[2]) \o UpperHex(hex[3]) \o UpperHex(hex[4])

RECURSIVE ScanString(_, _, _)
\* The string whose opening quote is before position i: up to the closing
\* quote, a control character in it being an error (strict mode).
ScanString(s, i, acc) ==
  IF i > Len(s) THEN JsonError
  ELSE IF s[i] = "\"" THEN JsonOk(JStr(acc), i + 1)
  ELSE IF s[i] \in {"\n", "\t", "\r"} THEN JsonError
  ELSE IF s[i] # "\\" THEN ScanString(s, i + 1, Append(acc, s[i]))
  ELSE IF i = Len(s) THEN JsonError
  ELSE IF s[i + 1] \in {"\"", "\\", "/", "b", "f", "n", "r", "t"}
    THEN ScanString(s, i + 2, Append(acc, Unescaped(s[i + 1])))
  ELSE IF /\ s[i + 1] = "u"
          /\ i + 5 <= Len(s)
          /\ \A k \in (i + 2)..(i + 5) : s[k] \in HexDigits
    THEN ScanString(s, i + 6, Append(acc, CodePoint(SubSeq(s, i + 2, i + 5))))
  ELSE JsonError

RECURSIVE ParseValue(_, _)
RECURSIVE ParseMembers(_, _, _)
RECURSIVE ParseElements(_, _, _)

\* The members of an object from the key at position i on (its opening
\* quote), members being those read so far; a repeated key keeps the last.
ParseMembers(s, i, members) ==
  IF i > Len(s) \/ s[i] # "\"" THEN JsonError
  ELSE
    LET key == ScanString(s, i + 1, <<>>)
        colon == SkipWhitespace(s, key.next)
        value == ParseValue(s, SkipWhitespace(s, colon + 1))
        after == SkipWhitespace(s, value.next)
        read == DictUpdate(members, [ k \in {key.val.v} |-> value.val ])
    IN  IF ~key.ok THEN JsonError
        ELSE IF colon > Len(s) \/ s[colon] # ":" THEN JsonError
        ELSE IF ~value.ok THEN JsonError
        ELSE IF after > Len(s) THEN JsonError
        ELSE IF s[after] = "}" THEN JsonOk(JDict(read), after + 1)
        ELSE IF s[after] = ","
          THEN ParseMembers(s, SkipWhitespace(s, after + 1), read)
        ELSE JsonError

\* The elements of an array from the value at position i on.
ParseElements(s, i, items) ==
  LET value == ParseValue(s, i)
      after == SkipWhitespace(s, value.next)
      read == Append(items, value.val)
  IN  IF ~value.ok THEN JsonError
      ELSE IF after > Len(s) THEN JsonError
      ELSE IF s[after] = "]" THEN JsonOk(JList(read), after + 1)
      ELSE IF s[after] = ","
        THEN ParseElements(s, SkipWhitespace(s, after + 1), read)
      ELSE JsonError

\* The value at position i (the decoder's scan_once).
ParseValue(s, i) ==
  IF i > Len(s) THEN JsonError
  ELSE IF s[i] = "\"" THEN ScanString(s, i + 1, <<>>)
  ELSE IF s[i] = "{" THEN
    LET first == SkipWhitespace(s, i + 1)
    IN  IF first <= Len(s) /\ s[first] = "}"
          THEN JsonOk(JDict(EmptyDict), first + 1)
          ELSE ParseMembers(s, first, EmptyDict)
  ELSE IF s[i] = "[" THEN
    LET first == SkipWhitespace(s, i + 1)
    IN  IF first <= Len(s) /\ s[first] = "]"
          THEN JsonOk(JList(<<>>), first + 1)
          ELSE ParseElements(s, first, <<>>)
  ELSE IF HasWord(s, i, <<"n","u","l","l">>) THEN JsonOk(JNull, i + 4)
  ELSE IF HasWord(s, i, <<"t","r","u","e">>) THEN JsonOk(JBool(TRUE), i + 4)
  ELSE IF HasWord(s, i, <<"f","a","l","s","e">>) THEN JsonOk(JBool(FALSE), i + 5)
  ELSE IF HasWord(s, i, <<"N","a","N">>)
    THEN JsonOk(JFloat(<<"N","a","N">>), i + 3)
  ELSE IF HasWord(s, i, <<"I","n","f","i","n","i","t","y">>)
    THEN JsonOk(JFloat(SubSeq(s, i, i + 7)), i + 8)
  ELSE IF HasWord(s, i, <<"-","I","n","f","i","n","i","t","y">>)
    THEN JsonOk(JFloat(SubSeq(s, i, i + 8)), i + 9)
  ELSE ParseNumber(s, i)

\* json.loads(s): one value with white space around it and nothing else.
JsonLoads(s) ==
  LET value == ParseValue(s, SkipWhitespace(s, 1))
  IN  IF value.ok /\ SkipWhitespace(s, value.next) = Len(s) + 1
        THEN value ELSE JsonError

\* --- measure_compliance ---

ScoreKey == <<"s","c","o","r","e">>

StrengthsKey == <<"s","t","r","e","n","g","t","h","s">>

WeaknessesKey == <<"w","e","a","k","n","e","s","s","e","s">>

RecommendationsKey == <<"r","e","c","o","m","m","e","n","d","a","t","i","o","n","s">>

\* max_chars of shorten_text (line 605).
max_chars == 3000

\* shorten_text (lines 605-610).
shorten_text(text) ==
  IF Len(text) <= max_chars THEN text ELSE SubSeq(text, 1, max_chars)

\* compliance_prompt (lines 307-381): the framing of the standard, or the
\* generic one, followed by the report.
CompliancePrompt(report_text, standard) ==
  [ intro |-> IF standard \in KnownStandards THEN standard ELSE "generic",
    report |-> report_text ]

\* A fallback dict that carries no text.
FallbackKeepsScoreOnly(result) ==
  (ScoreKey :> JNull) @@ (StrengthsKey :> JStr(<<>>))
    @@ (WeaknessesKey :> JStr(<<>>)) @@ (RecommendationsKey :> JStr(<<>>))

\* The dict of lines 389 and 391.
Fallback(result) ==
  (ScoreKey :> JNull) @@ (StrengthsKey :> JStr(result))
    @@ (WeaknessesKey :> JStr(<<>>)) @@ (RecommendationsKey :> JStr(<<>>))

\* An evaluation that never parses the response.
MeasureComplianceFallbackOnly(report_text, standard, content) ==
  Fallback(Strip(content))

\* measure_compliance (lines 382-392), content being response.content: the
\* dict json.loads gives for the stripped text, or the fallback dict.
measure_compliance(report_text, standard, content) ==
  LET result == Strip(content)
      data == JsonLoads(result)
  IN  IF data.ok /\ data.val.t = "dict" THEN data.val.v ELSE Fallback(result)

\* --- what lines 618-632 take from compliance_result ---

\* compliance_result is shown when it is not empty (line 618); the four
\* values of lines 622-625.
Insights(data) ==
  [ shown |-> data # EmptyDict,
    score |-> DictGet(data, ScoreKey, JNull),
    strengths |-> DictGet(data, StrengthsKey, JStr(<<>>)),
    weaknesses |-> DictGet(data, WeaknessesKey, JStr(<<>>)),
    recommendations |-> DictGet(data, RecommendationsKey, JStr(<<>>)) ]

\* int(text) of a str: white space around, a sign, digits with single
\* underscores between them; Raised otherwise.
Raised == [ ok |-> FALSE, v |-> 0 ]

IntOfStr(text) ==
  LET t == Strip(text)
      signed == t # <<>> /\ t[1] \in {"-", "+"}
      body == IF signed THEN Tail(t) ELSE t
      digits == SelectSeq(body, IsDigit)
      wellFormed ==
        /\ body # <<>>
        /\ \A k \in DOMAIN body :
             \/ IsDigit(body[k])
             \/ /\ body[k] = "_"
                /\ 1 < k /\ k < Len(body)
                /\ IsDigit(body[k - 1]) /\ IsDigit(body[k + 1])
      magnitude == DecimalValue(digits)
  IN  IF ~wellFormed THEN Raised
      ELSE [ ok |-> TRUE,
             v |-> IF signed /\ t[1] = "-" THEN 0 - magnitude ELSE magnitude ]

\* int(x) of a float given by its literal: the integer part (rounding of the
\* literal to a double aside); NaN and the infinities raise.
IntOfFloat(text) ==
  LET negative == text # <<>> /\ text[1] = "-"
      body == IF negative THEN Tail(text) ELSE text
      expAt == { k \in DOMAIN body : body[k] \in {"e", "E"} }
      mantissa == IF expAt = {} THEN body
                  ELSE SubSeq(body, 1, (CHOOSE k \in expAt : TRUE) - 1)
      exponent == IF expAt = {} THEN 0
                  ELSE IntOfStr(SubSeq(body, (CHOOSE k \in expAt : TRUE) + 1,
                                       Len(body))).v
      pointAt == { k \in DOMAIN mantissa : mantissa[k] = "." }
      whole == IF pointAt = {} THEN Len(mantissa)
               ELSE (CHOOSE k \in pointAt : TRUE) - 1
      digits == SelectSeq(mantissa, IsDigit)
      kept == whole + exponent
      magnitude ==
        IF kept <= 0 THEN 0
        ELSE DecimalValue([ k \in 1..kept |->
                              IF k <= Len(digits) THEN digits[k] ELSE "0" ])
  IN  IF body = <<>> \/ ~IsDigit(body[1]) THEN Raised
      ELSE [ ok |-> TRUE, v |-> IF negative THEN 0 - magnitude ELSE magnitude ]

\* int(score) (line 636).
IntOf(score) ==
  CASE score.t = "int" -> [ ok |-> TRUE, v |-> score.v ]
    [] score.t = "bool" -> [ ok |-> TRUE, v |-> IF score.v THEN 1 ELSE 0 ]
    [] score.t = "float" -> IntOfFloat(score.v)
    [] score.t = "str" -> IntOfStr(score.v)
    [] OTHER -> Raised

\* Lines 634-638: "Not Available" for no score, else the score and a bar
\* given int(score); st.progress takes an int in 0..100 and raises otherwise,
\* which ends the script run there.
ScoreDisplay(score) ==
  IF score.t = "null" THEN "not available"
  ELSE IF IntOf(score).ok /\ IntOf(score).v \in 0..100 THEN "bar"
  ELSE "raised"

\* The script run that shows these insights ends in an exception.
DisplayRaises(data) ==
  Insights(data).shown /\ ScoreDisplay(Insights(data).score) = "raised"

\* --- "Evaluate with AI" (lines 581, 612-617) ---

\* The most times Evaluate with AI is pressed.
MaxEvaluations == 2

\* The button is reached when create_pdf, called before it in the script
\* (line 589), has returned.  It is pressed and the service answers with
\* content: the call is
\* made with the prompt for the shortened report, and measure_compliance's
\* dict is stored.
Evaluate(content) ==
  /\ pc = "idle"
  /\ ReportShown
  /\ ~CreatePdfRaises
  /\ Len(evaluations) < MaxEvaluations
  /\ evaluations' = Append(evaluations,
       [ prompt |-> CompliancePrompt(shorten_text(generated_report),
                                     current_standard),
         response |-> content,
         raised |-> FALSE ])
  /\ compliance_result' =
       measure_compliance(shorten_text(generated_report), current_standard,
                          content)
  /\ messages' = <<"success: AI evaluation complete!">>
  /\ UNCHANGED << generated_report, current_standard, n_runs, sessionVars,
                  runVars, uploadVars, normVars, pdfVars >>

\* The button is pressed and the call raises (line 384, not caught): the
\* script run ends and nothing is stored.
EvaluateRaises ==
  /\ pc = "idle"
  /\ ReportShown
  /\ ~CreatePdfRaises
  /\ Len(evaluations) < MaxEvaluations
  /\ evaluations' = Append(evaluations,
       [ prompt |-> CompliancePrompt(shorten_text(generated_report),
                                     current_standard),
         response |-> <<>>,
         raised |-> TRUE ])
  /\ messages' = <<>>
  /\ UNCHANGED << compliance_result, generated_report, current_standard,
                  n_runs, sessionVars, runVars, uploadVars, normVars, pdfVars >>

\* --- evaluation runs over a family of responses ---

\* The response of the fallback example.
NotJsonAtAll ==
  <<"n","o","t"," ","j","s","o","n"," ","a","t"," ","a","l","l">>

\* A response that is no JSON, with white space around it.
PaddedNotJson ==
  <<" "," ","n","o","t"," ","j","s","o","n"," ","\n">>

\* The response of the structured example.
Score82Response ==
  <<"{","\"","s","c","o","r","e","\"",":"," ","8","2",","," ","\"","s","t",
    "r","e","n","g","t","h","s","\"",":"," ","\"","G","o","o","d"," ","c",
    "o","v","e","r","a","g","e","\"",","," ","\"","w","e","a","k","n","e",
    "s","s","e","s","\"",":"," ","\"","T","h","i","n"," ","m","e","t","r",
    "i","c","s","\"",","," ","\"","r","e","c","o","m","m","e","n","d","a",
    "t","i","o","n","s","\"",":"," ","\"","A","d","d"," ","t","a","r","g",
    "e","t","s","\"","}">>

\* An object whose score is above 100.
Score150Response ==
  <<"{","\"","s","c","o","r","e","\"",":"," ","1","5","0",","," ","\"","s",
    "t","r","e","n","g","t","h","s","\"",":"," ","\"","x","\"","}">>

\* An object with a list of strengths and no other field.
StrengthsOnlyResponse ==
  <<" ","{","\"","s","t","r","e","n","g","t","h","s","\"",":"," ","[","\"",
    "a","\"",","," ","\"","b","\"","]","}","\n">>

\* Other responses: empty, values that are no object, objects with a score
\* of another type or out of range, text that is almost JSON.
OtherResponses ==
  { <<>>,
    <<"{","}">>,
    <<"[","1",","," ","2","]">>,
    <<"4","2">>,
    <<"\"","t","e","x","t","\"">>,
    <<"n","u","l","l">>,
    <<"t","r","u","e">>,
    <<"{","\"","s","c","o","r","e","\"",":"," ","8","2","}"," ","t","r","a","i",
      "l","i","n","g">>,
    <<"{","\"","s","c","o","r","e","\"",":"," ","\"","h","i","g","h","\"","}">>,
    <<"{","\"","s","c","o","r","e","\"",":"," ","8","2",".","5","}">>,
    <<"{","\"","s","c","o","r","e","\"",":"," ","0","}">>,
    <<"{","\"","s","c","o","r","e","\"",":"," ","n","u","l","l",","," ","\"",
      "s","t","r","e","n","g","t","h","s","\"",":"," ","\"","x","\"","}">>,
    <<"{","\"","s","c","o","r","e","\"",":"," ","1","0","0",","," ","\"","w",
      "e","a","k","n","e","s","s","e","s","\"",":"," ","\"","I","t","\\","u",
      "2","0","1","9","s"," ","t","h","i","n","\"","}">>,
    <<"{","\"","s","c","o","r","e","\"",":"," ","1",",","}">> }

Responses ==
  { NotJsonAtAll, PaddedNotJson, Score82Response, Score150Response,
    StrengthsOnlyResponse } \cup OtherResponses

\* The reports evaluated: one section, and three of which one is empty.
EvaluatedReports ==
  { Block(SectionText(1)),
    Block(SectionText(1)) \o Block(<<>>) \o Block(SectionText(3)) }

\* The review page after a generation run left a report.
InitEval ==
  /\ mode = "upload"
  /\ step = NumQuestions
  /\ report_data = ReviewStore(AnswersOf({1, 3}))
  /\ generated_report \in EvaluatedReports
  /\ current_standard = "GRI"
  /\ compliance_result = EmptyDict
  /\ NoUpload /\ NoRun /\ NoLabels /\ NoEvaluation /\ NoPdf

NextEval ==
  \/ \E content \in Responses : Evaluate(content)
  \/ EvaluateRaises

SpecEval == InitEval /\ [][NextEval]_vars

----------------------------------------------------------------------------
(* The session: main, lines 439-655, one action for each script run that   *)
(* an interaction of the user starts.                                      *)

\* --- a generation run as one step ---

RECURSIVE RunReport(_, _, _)
\* What generate_full_report returns for data from question i on, the calls
\* for the questions of fails raising: the blocks of the loop at line 292.
RunReport(data, fails, i) ==
  IF i > NumQuestions THEN <<>>
  ELSE IF ~Answered(data, i) THEN RunReport(data, fails, i + 1)
  ELSE Block(IF i \in fails THEN <<>> ELSE SectionText(i))
         \o RunReport(data, fails, i + 1)

RECURSIVE RunLog(_, _, _, _)
\* The calls of that run and how each ended.
RunLog(data, standard, fails, i) ==
  IF i > NumQuestions THEN <<>>
  ELSE IF ~Answered(data, i) THEN RunLog(data, standard, fails, i + 1)
  ELSE << [ event |-> "call", slot |-> i,
            prompt |-> Prompt(questions[i][2],
                              DictGet(data, questions[i][1], <<>>), standard) ],
          [ event |-> IF i \in fails THEN "raise" ELSE "return", slot |-> i ] >>
         \o RunLog(data, standard, fails, i + 1)

\* The values the progress bar of that run is given.
RunProgress(data) ==
  LET total == Cardinality(AnsweredKeys(data))
  IN  <<0>> \o [ k \in 1..total |-> ProgressPercent(k, total) ]

\* The messages of that run: an error for each call that raised, in order,
\* and the success message of line 579.
RunMessages(data, fails) ==
  [ k \in 1..Cardinality(fails \cap AnsweredKeys(data)) |->
      "error: An error occurred during report generation" ]
    \o <<"success: GRI report generated successfully!">>

\* In a session the calls that raise are among the first MaxFailures calls
\* of the run.
FailureSets(data) ==
  LET answered == AnsweredKeys(data)
      first == { i \in answered :
                   Cardinality({ k \in answered : k < i }) < MaxFailures }
  IN  SUBSET first

\* The most times Generate Report is pressed in a session.
MaxGenerations == 2

GenerateAppending(fails) ==
  /\ pc = "idle"
  /\ ReviewStage
  /\ n_runs < MaxGenerations
  /\ AnsweredKeys(report_data) # {}
  /\ fails \in FailureSets(report_data)
  /\ current_standard' = "GRI"
  /\ n_runs' = n_runs + 1
  /\ total_sections' = Cardinality(AnsweredKeys(report_data))
  /\ completed' = total_sections'
  /\ loop_i' = NumQuestions + 1
  /\ full_report' = RunReport(report_data, fails, 1)
  /\ progress_bar' = RunProgress(report_data)
  /\ service_log' = RunLog(report_data, "GRI", fails, 1)
  /\ messages' = RunMessages(report_data, fails)
  /\ generated_report' = generated_report \o full_report'
  /\ UNCHANGED << pc, sessionVars, uploadVars, normVars, evalVars, pdfVars >>

\* "Generate Report" pressed with an answered slot, the whole script run
\* (lines 572-579 and 276-300): GenerateStart, the iterations of the loop
\* and LoopDone.
Generate(fails) ==
  /\ pc = "idle"
  /\ ReviewStage
  /\ n_runs < MaxGenerations
  /\ AnsweredKeys(report_data) # {}
  /\ fails \in FailureSets(report_data)
  /\ current_standard' = "GRI"
  /\ n_runs' = n_runs + 1
  /\ total_sections' = Cardinality(AnsweredKeys(report_data))
  /\ completed' = total_sections'
  /\ loop_i' = NumQuestions + 1
  /\ full_report' = RunReport(report_data, fails, 1)
  /\ progress_bar' = RunProgress(report_data)
  /\ service_log' = RunLog(report_data, "GRI", fails, 1)
  /\ messages' = RunMessages(report_data, fails)
  /\ generated_report' = full_report'
  /\ UNCHANGED << pc, sessionVars, uploadVars, normVars, evalVars, pdfVars >>

\* The run taken step by step leaves what the run as one step leaves.
GenerateAgreesWithSteps ==
  (pc = "idle" /\ n_runs = 1 /\ AnsweredKeys(report_data) # {}) =>
    LET fails == { service_log[k].slot :
                     k \in { m \in DOMAIN service_log :
                               service_log[m].event = "raise" } }
    IN  /\ generated_report = RunReport(report_data, fails, 1)
        /\ full_report = generated_report
        /\ service_log = RunLog(report_data, current_standard, fails, 1)
        /\ progress_bar = RunProgress(report_data)
        /\ messages = RunMessages(report_data, fails)
        /\ total_sections = Cardinality(AnsweredKeys(report_data))
        /\ completed = total_sections
        /\ loop_i = NumQuestions + 1

\* --- the interactions ---

\* What neither the welcome page nor the questionnaire touches.
keptVars == << generated_report, current_standard, n_runs, runVars,
               uploadVars, normVars, evalVars, pdfVars >>

\* "Start Questionnaire" on the welcome page (lines 457, 476-477).
StartQuestionnaire ==
  /\ pc = "idle"
  /\ mode = "none"
  /\ mode' = "questionnaire"
  /\ messages' = <<>>
  /\ UNCHANGED << step, report_data, keptVars >>

\* "Upload File" on the welcome page (lines 457, 479-480).
ChooseUpload ==
  /\ pc = "idle"
  /\ mode = "none"
  /\ mode' = "upload"
  /\ messages' = <<>>
  /\ UNCHANGED << step, report_data, keptVars >>

\* The question shown (line 532): questions[step], counted from 0.
QuestionShown == questions[step + 1]

SubmitAcceptsBlank(user_input) ==
  /\ pc = "idle"
  /\ mode = "questionnaire"
  /\ step < NumQuestions
  /\ report_data' = DictUpdate(report_data, QuestionShown[1] :> Strip(user_input))
  /\ step' = step + 1
  /\ messages' = <<>>
  /\ UNCHANGED << mode, keptVars >>

\* "Submit Answer" with user_input in the text area (lines 525, 532-540).
Submit(user_input) ==
  /\ pc = "idle"
  /\ mode = "questionnaire"
  /\ step < NumQuestions
  /\ IF Strip(user_input) # <<>>
       THEN /\ report_data' =
                 DictUpdate(report_data, QuestionShown[1] :> Strip(user_input))
            /\ step' = step + 1
       ELSE UNCHANGED << step, report_data >>
  /\ messages' = <<>>
  /\ UNCHANGED << mode, keptVars >>

\* "Back" (lines 525-530).
Back ==
  /\ pc = "idle"
  /\ mode = "questionnaire"
  /\ step < NumQuestions
  /\ IF step > 0
       THEN step' = step - 1 /\ UNCHANGED mode
       ELSE mode' = "none" /\ UNCHANGED step
  /\ messages' = <<>>
  /\ UNCHANGED << report_data, keptVars >>

\* The text area of question i on the review page is given text (lines
\* 543-548): it is stored under the question's key, every other text area
\* giving back what was stored.
ReviewEdit(i, text) ==
  /\ pc = "idle"
  /\ ReviewStage
  /\ report_data' = [ ReviewStore(report_data) EXCEPT ![questions[i][1]] = text ]
  /\ messages' = <<>>
  /\ UNCHANGED << mode, step, keptVars >>

\* The script run reaches the Start Over button (line 647): neither
\* create_pdf (line 589) nor the score display (line 636) has raised.
StartOverShown ==
  /\ ReviewStage
  /\ ReportShown => (~CreatePdfRaises /\ ~DisplayRaises(compliance_result))

\* "Start Over" (lines 647-653).  The records of what was uploaded, generated
\* and evaluated were local to the script runs that made them and are
\* dropped with the session they belonged to.
StartOver ==
  /\ pc = "idle"
  /\ StartOverShown
  /\ step' = 0
  /\ report_data' = EmptyDict
  /\ generated_report' = <<>>
  /\ compliance_result' = EmptyDict
  /\ current_standard' = ""
  /\ mode' = "none"
  /\ uploads' = <<>> /\ parsed_data' = EmptyDict
  /\ n_runs' = 0 /\ loop_i' = 0 /\ total_sections' = 0 /\ completed' = 0
  /\ full_report' = <<>> /\ progress_bar' = <<>> /\ service_log' = <<>>
  /\ messages' = <<>>
  /\ evaluations' = <<>>
  /\ UNCHANGED pc
  /\ UNCHANGED << normVars, pdfVars >>

\* --- the session over small families of inputs ---

\* What the user submits to a question: nothing, a blank, an answer.
SubmittedTexts == { <<>>, <<" ">>, <<" ", "a", " ">> }

\* The files uploaded: a sheet with a label that is
\* no question, an unreadable file.
UploadedFiles == { RetailFile, UnreadableFile }

\* Back is pressed on the welcome page's side of question MaxBackStep.
MaxBackStep == 2

\* The review page is edited in the first MaxEdited text areas.
MaxEdited == 1

EditedTexts == { <<>>, <<"b">> }

\* What the service answers to an evaluation.
SessionResponses == { Score82Response, Score150Response }

Init ==
  /\ FreshSession
  /\ NoUpload /\ NoRun /\ NoLabels /\ NoEvaluation /\ NoPdf

Next ==
  \/ StartQuestionnaire
  \/ ChooseUpload
  \/ \E user_input \in SubmittedTexts : Submit(user_input)
  \/ step <= MaxBackStep /\ Back
  \/ \E file \in UploadedFiles : Upload(file)
  \/ \E i \in 1..MaxEdited, text \in EditedTexts : ReviewEdit(i, text)
  \/ n_runs < MaxGenerations /\ GenerateNoInput
  \/ \E fails \in FailureSets(report_data) : Generate(fails)
  \/ \E content \in SessionResponses : Evaluate(content)
  \/ EvaluateRaises
  \/ StartOver

Spec == Init /\ [][Next]_vars


----------------------------------------------------------------------------
(* Properties of a generation run.                                         *)

\* The answer of question i is non-empty after trimming: it has a character
\* that is no white space.
TrimmedNonEmpty(data, i) ==
  /\ questions[i][1] \in DOMAIN data
  /\ \E j \in DOMAIN data[questions[i][1]] :
       data[questions[i][1]][j] \notin Whitespace

AnsweredSlots == { i \in 1..NumQuestions : TrimmedNonEmpty(report_data, i) }

\* A run was started and generate_full_report has returned from its loop.
RunCompleted == n_runs > 0 /\ pc = "idle" /\ loop_i > NumQuestions

\* The slots of the log entries of one kind, in the order of the log.
SlotsOf(kind) ==
  LET picked == SelectSeq(service_log, LAMBDA e : e.event = kind)
  IN  [ k \in DOMAIN picked |-> picked[k].slot ]

\* The members of a set of question positions in increasing order.
RECURSIVE Ascending(_)
Ascending(S) ==
  IF S = {} THEN <<>>
  ELSE LET m == CHOOSE x \in S : \A y \in S : x <= y
       IN  <<m>> \o Ascending(S \ {m})

\* The '# '-prefixed blocks of the given slots, one after the other.
RECURSIVE BlocksOf(_)
BlocksOf(slots) ==
  IF slots = <<>> THEN <<>>
  ELSE <<"#", " ">> \o SectionText(Head(slots)) \o <<"\n", "\n">>
       \o BlocksOf(Tail(slots))

\* The positions of a text at which a line starts with "# ".
HeadingStarts(text) ==
  { j \in 1..(Len(text) - 1) :
      /\ text[j] = "#"
      /\ text[j + 1] = " "
      /\ (j = 1 \/ text[j - 1] = "\n") }

\* The texts of the '# '-prefixed blocks of a text, in order: each from after
\* its "# " to before the blank line that ends it.
BlockContents(text) ==
  LET starts == Ascending(HeadingStarts(text))
  IN  [ k \in DOMAIN starts |->
          SubSeq(text, starts[k] + 2,
                 (IF k < Len(starts) THEN starts[k + 1] ELSE Len(text) + 1) - 3) ]

\* C1: when a run has completed, the returned text consists only of the
\* '# '-prefixed blocks of the answered slots whose call succeeded, in order:
\* a slot whose call failed contributes no text.
C1_FailedSlotContributesNoText ==
  RunCompleted => generated_report = BlocksOf(SlotsOf("return"))

\* C2: the service is called exactly once for each slot whose trimmed answer
\* is non-empty and for no other slot, in questionnaire order; a call starts
\* only after the previous one returned or failed; a failure does not stop the
\* later calls; and the blocks of the text are in the order of the calls.
C2_CallsOncePerAnsweredSlotInOrder ==
  LET calls == SlotsOf("call")
      reached == { i \in AnsweredSlots :
                     i < loop_i \/ (i = loop_i /\ pc = "call") }
      ended == SelectSeq(service_log, LAMBDA e : e.event # "call")
      blocks == BlockContents(full_report)
  IN  n_runs > 0 =>
        \* the calls so far are the answered slots reached so far, each once,
        \* in increasing order; at the end they are all the answered slots
        /\ calls = Ascending(reached)
        /\ RunCompleted => calls = Ascending(AnsweredSlots)
        \* every call is directly followed by its own end, except a last one
        \* that is still in flight
        /\ \A k \in DOMAIN service_log :
             IF k % 2 = 1
               THEN /\ service_log[k].event = "call"
                    /\ k = Len(service_log) => pc = "call"
               ELSE /\ service_log[k].event \in {"return", "raise"}
                    /\ service_log[k].slot = service_log[k - 1].slot
        /\ pc = "call" => Len(service_log) % 2 = 1
        \* one block per ended call, in the order of the calls: the k-th
        \* block holds the section of the k-th call that returned
        /\ Len(ended) = Len(blocks)
        /\ \A k \in DOMAIN ended :
             ended[k].event = "return" => blocks[k] = SectionText(ended[k].slot)

\* C2 witness: a completed run with blank and missing answers skipped, three
\* or more calls, and a failed call followed by a later call that succeeded.
C2_Witness ==
  /\ RunCompleted
  /\ Len(SlotsOf("call")) >= 3
  /\ Cardinality(AnsweredSlots) < NumQuestions
  /\ \E k \in DOMAIN service_log :
       /\ service_log[k].event = "raise"
       /\ \E m \in DOMAIN service_log : m > k /\ service_log[m].event = "return"

\* C3: every progress value is an integer in 0..100, the values never
\* decrease, and a completed run with at least one generated section ends
\* with 100.
C3_ProgressMonotoneEndsAt100 ==
  /\ \A k \in DOMAIN progress_bar : progress_bar[k] \in 0..100
  /\ \A k \in 1..(Len(progress_bar) - 1) : progress_bar[k] <= progress_bar[k + 1]
  /\ (RunCompleted /\ SlotsOf("return") # <<>>) =>
       progress_bar[Len(progress_bar)] = 100

\* C3 witness: a completed run of several sections, not all 24, whose values
\* rose in steps and ended with 100.
C3_Witness ==
  /\ RunCompleted
  /\ SlotsOf("return") # <<>>
  /\ Len(progress_bar) >= 4
  /\ Cardinality(AnsweredSlots) < NumQuestions
  /\ progress_bar[Len(progress_bar)] = 100
  /\ progress_bar[2] > 0

\* C4: with n >= 1 answered slots the run makes exactly n progress calls after
\* creating the bar, the i-th with floor(100 * i / n), and appends exactly n
\* heading blocks; with one answered slot, one call with 100 and one block.
C4_ProgressAndBlocksPerAnsweredSlot ==
  LET n == Cardinality(AnsweredSlots)
      updates == Tail(progress_bar)
  IN  /\ (n_runs > 0 /\ n >= 1) =>
           /\ progress_bar[1] = 0
           /\ \A i \in DOMAIN updates : updates[i] = (100 * i) \div n
           /\ Len(updates) = Cardinality(HeadingStarts(full_report))
           /\ Len(updates) <= n
      /\ (RunCompleted /\ n >= 1) =>
           /\ Len(updates) = n
           /\ Cardinality(HeadingStarts(generated_report)) = n
      /\ (RunCompleted /\ n = 1) =>
           /\ updates = <<100>>
           /\ Cardinality(HeadingStarts(generated_report)) = 1

\* C4 witness: a completed run with seven answered slots, where the
\* percentages are rounded down.
C4_Witness ==
  /\ RunCompleted
  /\ Cardinality(AnsweredSlots) = 7
  /\ Tail(progress_bar) = <<14, 28, 42, 57, 71, 85, 100>>

\* A completed run with exactly one answered slot: the bar is created at 0
\* and gets one call, with 100.
OneAnsweredSlotRun ==
  /\ RunCompleted
  /\ Cardinality(AnsweredSlots) = 1
  /\ progress_bar = <<0, 100>>

\* C5: with no slot answered (missing, empty and blank answers alike) a run
\* reports the no-input error, calls the service never, reports no progress,
\* returns the empty text, and no document is held for display afterwards.
C5_NoInputRunProducesNothing ==
  (n_runs > 0 /\ AnsweredSlots = {}) =>
    /\ pc = "idle"
    /\ service_log = <<>>
    /\ progress_bar = <<>>
    /\ full_report = <<>>
    /\ generated_report = <<>>
    /\ \E k \in DOMAIN messages : messages[k] = "error: No responses provided."

\* C5 witness: Generate was pressed on a map with missing keys, empty answers
\* and blank answers only.
C5_Witness ==
  /\ n_runs > 0
  /\ AnsweredSlots = {}
  /\ generated_report = <<>>
  /\ \E i \in 1..NumQuestions : questions[i][1] \notin DOMAIN report_data
  /\ \E k \in DOMAIN report_data : report_data[k] = <<>>
  /\ \E k \in DOMAIN report_data :
       report_data[k] # <<>> /\ Strip(report_data[k]) = <<>>

----------------------------------------------------------------------------
(* Properties of ingestion.                                                *)

\* The file handed to parse_uploaded_excel last.
LastUpload == uploads[Len(uploads)]

\* The text of a cell as the sheet shows it: nothing for a blank cell.
CellText(cell) == IF cell = NaN THEN <<>> ELSE cell

\* The (label, value) pair a data row stands for: the columns named Key and
\* Value when both exist, otherwise the first two columns, with the empty
\* value when there is no second one.
RowLabel(row, columns) ==
  IF KeyColumn \in Range(columns) /\ ValueColumn \in Range(columns)
    THEN CellText(row[ColumnIndex(columns, KeyColumn)])
    ELSE CellText(row[1])

RowValueText(row, columns) ==
  IF KeyColumn \in Range(columns) /\ ValueColumn \in Range(columns)
    THEN CellText(row[ColumnIndex(columns, ValueColumn)])
    ELSE IF Len(row) >= 2 THEN CellText(row[2]) ELSE <<>>

\* The data rows of a file whose label resolves to slot s.
RowsFor(file, s) ==
  { r \in DOMAIN file.rows :
      /\ Resolves(RowLabel(file.rows[r], file.columns))
      /\ SlotOf(RowLabel(file.rows[r], file.columns)) = s }

LastOf(S) == CHOOSE r \in S : \A q \in S : q <= r

\* The map of the round-trip example.
AcmeTechMap == ("company_name" :> Acme) @@ ("industry" :> Tech)

\* C6: ingesting the empty template and then the template filled with Company
\* Name = "Acme" and Industry = "Tech" yields exactly {company_name: "Acme",
\* industry: "Tech"}: rows with an empty value cell add no key.
C6_FilledTemplateYieldsTwoAnswers ==
  uploads = <<TemplateFile, AcmeTechFile>> => parsed_data = AcmeTechMap

\* C7: ingest returns the map obtained by processing the rows in order: a slot
\* that some row's label resolves to holds the value of the last such row, and
\* a slot no row resolves to is no key of the map.
C7_IngestLastWriteWins ==
  (uploads # <<>> /\ LastUpload.kind = "table") =>
    \A s \in QuestionKeys \cup DOMAIN parsed_data :
      IF RowsFor(LastUpload, s) = {}
        THEN s \notin DOMAIN parsed_data
        ELSE /\ s \in DOMAIN parsed_data
             /\ parsed_data[s] =
                  RowValueText(LastUpload.rows[LastOf(RowsFor(LastUpload, s))],
                               LastUpload.columns)

\* The same with each value as the program reads it, str() of the cell: this
\* holds, so the rows are processed in order and the last one wins; what
\* differs from C7 is the value stored for a blank cell.
IngestLastWriteWinsAsRead ==
  (uploads # <<>> /\ LastUpload.kind = "table") =>
    \A s \in QuestionKeys \cup DOMAIN parsed_data :
      IF RowsFor(LastUpload, s) = {}
        THEN s \notin DOMAIN parsed_data
        ELSE /\ s \in DOMAIN parsed_data
             /\ parsed_data[s] =
                  LET row == LastUpload.rows[LastOf(RowsFor(LastUpload, s))]
                      text == RowValueText(row, LastUpload.columns)
                      blank == IF HasNamedColumns(LastUpload.columns)
                                 THEN row[ColumnIndex(LastUpload.columns,
                                                      ValueColumn)] = NaN
                                 ELSE Len(row) >= 2 /\ row[2] = NaN
                  IN  IF blank THEN <<"n","a","n">> ELSE text

ErrorReported ==
  \E k \in DOMAIN messages : messages[k] = "error: Error processing Excel file"

\* C8: when the file is unreadable, ingest reports an error and returns the
\* empty map without raising, and merging that result leaves every answer the
\* session held as it was.
C8_UnreadableFileChangesNoAnswer ==
  [][ ( /\ Len(uploads') = Len(uploads) + 1
        /\ uploads'[Len(uploads')].kind = "unreadable" )
      => /\ parsed_data' = EmptyDict
         /\ \E k \in DOMAIN messages' :
              messages'[k] = "error: Error processing Excel file"
         /\ DOMAIN report_data \subseteq DOMAIN report_data'
         /\ \A k \in DOMAIN report_data' :
              report_data'[k] = DictGet(report_data, k, <<>>) ]_vars

\* C8 witness: an unreadable file was processed in a session that held
\* answers, and they are still there.
C8_Witness ==
  /\ uploads # <<>>
  /\ LastUpload.kind = "unreadable"
  /\ parsed_data = EmptyDict
  /\ ErrorReported
  /\ "industry" \in DOMAIN report_data
  /\ report_data["industry"] = <<"a">>

\* The slot id each template label resolves to, "" when it resolves to none.
TemplateSlots ==
  [ i \in DOMAIN template_keys |->
      IF Resolves(template_keys[i]) THEN SlotOf(template_keys[i]) ELSE "" ]

\* C10: the template has exactly 24 labels; normalizing each and looking it up
\* in predefined_keys gives 24 pairwise distinct slot ids, exactly those of the
\* questionnaire; so ingesting the template yields all 24 slots.
C10_TemplateRecoversAllSlots ==
  /\ Len(template_keys) = 24
  /\ Cardinality(QuestionKeys) = 24
  /\ \A i \in DOMAIN TemplateSlots : TemplateSlots[i] # ""
  /\ \A i, j \in DOMAIN TemplateSlots :
       i # j => TemplateSlots[i] # TemplateSlots[j]
  /\ Range(TemplateSlots) = QuestionKeys
  /\ (uploads # <<>> /\ LastUpload = TemplateFile) =>
       DOMAIN parsed_data = QuestionKeys

\* C10 witness: the template was ingested and gave a map with 24 keys.
C10_Witness ==
  /\ uploads # <<>>
  /\ LastUpload = TemplateFile
  /\ Cardinality(DOMAIN parsed_data) = 24

----------------------------------------------------------------------------
(* Properties of normalize_key.                                            *)

\* A label of ASCII characters only.
AsciiOnly(s) == \A i \in DOMAIN s : s[i] \notin GreekLetters

\* The letters and digits of a label, in order.
LettersAndDigits(s) == SelectSeq(s, LAMBDA ch : ~Punctuation(ch))

LowercaseLettersAndDigits ==
  Range(AsciiLower) \cup AsciiDigits \cup {SmallSigma, FinalSigma}

LowercaseLetterOrDigit(ch) == ch \in LowercaseLettersAndDigits

\* The result holds only lowercase letters and digits: the letters and digits
\* of the label, in order, each letter in its lowercase form.
ResultOfLabel(norm, label) ==
  LET kept == LettersAndDigits(label)
  IN  /\ \A i \in DOMAIN norm : LowercaseLetterOrDigit(norm[i])
      /\ Len(norm) = Len(kept)
      /\ \A i \in DOMAIN norm : SameUpToCase(norm[i], kept[i])

----------------------------------------------------------------------------
(* Evaluation (SpecEval).                                                  *)

\* The last press of Evaluate with AI got a response from the service.
Evaluated ==
  evaluations # <<>> /\ ~evaluations[Len(evaluations)].raised

LastResponse == evaluations[Len(evaluations)].response

\* The response is JSON for an object.
ParsesAsObject(content) ==
  LET data == JsonLoads(content) IN data.ok /\ data.val.t = "dict"

FourFields == { ScoreKey, StrengthsKey, WeaknessesKey, RecommendationsKey }

\* The result with no score, text as strengths and the other two empty.
IsFallbackWith(data, text) ==
  /\ DOMAIN data = FourFields
  /\ data[ScoreKey] = JNull
  /\ data[StrengthsKey] = JStr(text)
  /\ data[WeaknessesKey] = JStr(<<>>)
  /\ data[RecommendationsKey] = JStr(<<>>)

C12_ObjectResponseReturnedAsParsed ==
  [][ evaluations' # evaluations =>
        /\ Len(evaluations') = Len(evaluations) + 1
        /\ SubSeq(evaluations', 1, Len(evaluations)) = evaluations
        /\ LET call == evaluations'[Len(evaluations')]
               data == JsonLoads(call.response)
           IN  (~call.raised /\ data.ok /\ data.val.t = "dict") =>
                 /\ DOMAIN compliance_result' = DOMAIN data.val.v
                 /\ \A key \in DOMAIN data.val.v :
                      compliance_result'[key] = data.val.v[key]
                 /\ \A key \in FourFields \ DOMAIN data.val.v :
                      /\ key \notin DOMAIN compliance_result'
                      /\ key = ScoreKey =>
                           Insights(compliance_result').score = JNull
                      /\ key = StrengthsKey =>
                           Insights(compliance_result').strengths = JStr(<<>>)
                      /\ key = WeaknessesKey =>
                           Insights(compliance_result').weaknesses = JStr(<<>>)
                      /\ key = RecommendationsKey =>
                           Insights(compliance_result').recommendations
                             = JStr(<<>>) ]_vars

\* C12 witness: the structured example was the response; the score held is
\* 82 and the three texts are those of the response.
C12_Witness ==
  /\ Evaluated
  /\ LastResponse = Score82Response
  /\ DOMAIN compliance_result = FourFields
  /\ compliance_result[ScoreKey] = JInt(82)
  /\ compliance_result[StrengthsKey]
       = JStr(<<"G","o","o","d"," ","c","o","v","e","r","a","g","e">>)
  /\ compliance_result[WeaknessesKey]
       = JStr(<<"T","h","i","n"," ","m","e","t","r","i","c","s">>)
  /\ compliance_result[RecommendationsKey]
       = JStr(<<"A","d","d"," ","t","a","r","g","e","t","s">>)

\* C15: the score of the result held is absent or an integer in 1..100.
C15_ScoreAbsentOrInRange ==
  LET score == Insights(compliance_result).score
  IN  score = JNull \/ (score.t = "int" /\ score.v \in 1..100)

----------------------------------------------------------------------------
(* Rendering (SpecPdf).                                                    *)

Typographic == { EnDash, EmDash, RightQuote }

\* The plain character for a typographic one.
Plain(c) ==
  CASE c = EnDash -> "-"
    [] c = EmDash -> "-"
    [] c = RightQuote -> "'"
    [] OTHER -> c

PlainPage(page) ==
  [ k \in DOMAIN page |->
      [ font |-> page[k].font,
        text |-> [ m \in DOMAIN page[k].text |-> Plain(page[k].text[m]) ] ] ]

PassDone == pdf_pc \in { "sanitized", "returned", "raised" }

HasTypographic(page) ==
  \E k \in DOMAIN page : \E m \in DOMAIN page[k].text :
    page[k].text[m] \in Typographic

\* How many of the three characters a text has, and the pages have.
TypographicIn(text) ==
  Cardinality({ m \in DOMAIN text : text[m] \in Typographic })

RECURSIVE SumOver(_, _)
SumOver(f, S) ==
  IF S = {} THEN 0
  ELSE LET x == CHOOSE x \in S : TRUE IN f[x] + SumOver(f, S \ {x})

TypographicOn(pgs) ==
  SumOver([ n \in DOMAIN pgs |->
              SumOver([ k \in DOMAIN pgs[n] |-> TypographicIn(pgs[n][k].text) ],
                      DOMAIN pgs[n]) ],
          DOMAIN pgs)

\* C13: once the pass has run there is at least one page and no page has
\* an en-dash, an em-dash or a right quotation mark, up to and after the
\* encoding; the pass runs when every line has been laid out, on pages that
\* still hold each of these characters as given (title block and headings
\* included), and replaces each en-dash and em-dash by '-' and each right
\* quotation mark by "'" on every page; the encoding only adds the footer
\* of the last page and returns the pages.
C13_NoTypographicCharacterAfterPass ==
  /\ [](PassDone =>
          /\ Len(pages) >= 1
          /\ pdf_i = Len(PdfLines) + 1
          /\ \A n \in DOMAIN pages : ~HasTypographic(pages[n]))
  /\ [][ /\ (pdf_pc = "idle" /\ pdf_pc' = "lines") =>
             TypographicOn(pages') =
               TypographicIn(TitleText(PdfCompanyName, current_standard))
         /\ (pdf_pc = "lines" /\ pdf_pc' = "lines") =>
             TypographicOn(pages') =
               TypographicOn(pages) + TypographicIn(PdfLines[pdf_i])
         /\ (pdf_pc = "lines" /\ pdf_pc' # "lines") =>
             /\ pdf_i = Len(PdfLines) + 1
             /\ pdf_pc' = "sanitized"
             /\ pages' = [ n \in DOMAIN pages |-> PlainPage(pages[n]) ]
         /\ (pdf_pc = "sanitized" /\ pdf_pc' # "sanitized") =>
             /\ DOMAIN pages' = DOMAIN pages
             /\ \A n \in DOMAIN pages :
                  SubSeq(pages'[n], 1, Len(pages[n])) = pages[n]
             /\ pdf_pc' = "returned" => pdf_bytes' = pages' ]_vars

\* C13 witness: the report of 24 sections for a company whose name has the
\* three characters was rendered on two pages; the title on page 1 and the
\* last heading on page 2 have the plain characters.
C13_Witness ==
  /\ pdf_pc = "returned"
  /\ generated_report = LongReport
  /\ \E m \in DOMAIN PdfCompanyName : PdfCompanyName[m] = RightQuote
  /\ Len(pages) = 2
  /\ pages[1][2] =
       Item("B16", current_year \o <<" ","-"," ","A","-","B","-","C","'","s",
                                     " ","-"," ","G","R","I"," ","R","e","p",
                                     "o","r","t">>)
  /\ \E k \in DOMAIN pages[2] :
       pages[2][k] = Item("B16", <<"2","4","-","-","'">>)

----------------------------------------------------------------------------
(* The session.                                                            *)

\* C14: in every state of a session, every key of the answers held
\* (report_data) is one of the 24 slot ids, the keys of questions.
C14_AnswerKeysAreSlotIds == DOMAIN report_data \subseteq QuestionKeys

\* C14 witness: a sheet with the row Foo, which names no question, was
\* uploaded over one questionnaire answer; all 24 slots and no other key are
\* held, the Industry row's value among them.
C14_Witness ==
  /\ mode = "upload"
  /\ uploads = << RetailFile >>
  /\ DOMAIN report_data = QuestionKeys
  /\ report_data["company_name"] = <<"a">>
  /\ report_data["industry"] = <<"R","e","t","a","i","l">>

RECURSIVE ReturnedBy(_)
\* The document a run with the service log given returns: a block for each
\* call in order, with the text the call returned, none when it raised.
ReturnedBy(log) ==
  IF log = <<>> THEN <<>>
  ELSE IF Head(log).event = "return"
         THEN Block(SectionText(Head(log).slot)) \o ReturnedBy(Tail(log))
  ELSE IF Head(log).event = "raise"
         THEN Block(<<>>) \o ReturnedBy(Tail(log))
  ELSE ReturnedBy(Tail(log))

\* C16: a step that runs Generate Report leaves as the document held exactly
\* what that run returned, the blocks of that run's calls, whatever was held
\* before; a Start Over step leaves the document empty and step, mode,
\* answers, standard and compliance result at their initial values; every
\* other step leaves the document held as it was.
C16_DocumentReplacedOrCleared ==
  [][ IF n_runs' = n_runs + 1
        THEN /\ generated_report' = full_report'
             /\ generated_report' = ReturnedBy(service_log')
      ELSE IF ReviewStage /\ mode' = "none"
        THEN /\ generated_report' = <<>>
             /\ step' = 0
             /\ mode' = "none"
             /\ report_data' = EmptyDict
             /\ current_standard' = ""
             /\ compliance_result' = EmptyDict
      ELSE generated_report' = generated_report ]_vars

\* C16 witness: a document was generated and evaluated, the answers were
\* then emptied on the review page, and a second Generate Report left the
\* empty document its run returned.
C16_Witness ==
  /\ n_runs = 2
  /\ generated_report = <<>>
  /\ evaluations # <<>>
  /\ compliance_result # EmptyDict
  /\ ReviewStage

\* C17: in every state of a session 0 <= step <= 24; in questionnaire mode
\* with step < 24 the question shown is one of questions and every slot
\* before position step holds an answer that is non-empty after trimming.
\* A step there moves the counter up by one only with a non-empty answer
\* stored for the question passed, or down by one, or, from step 0, to the
\* welcome choice.
C17_StepAndAnsweredPrefix ==
  /\ [](/\ step \in 0..NumQuestions
        /\ (mode = "questionnaire" /\ step < NumQuestions) =>
             /\ step + 1 \in DOMAIN questions
             /\ \A i \in 1..step : Answered(report_data, i))
  /\ [][ (mode = "questionnaire" /\ step < NumQuestions) =>
           /\ step' \in { step - 1, step, step + 1 }
           /\ step' = step + 1 =>
                /\ Answered(report_data', step + 1)
                /\ report_data'[questions[step + 1][1]] =
                     Strip(report_data'[questions[step + 1][1]])
                /\ mode' = mode
           /\ step' = step - 1 => (mode' = mode /\ report_data' = report_data)
           /\ mode' # mode => (step = 0 /\ step' = 0 /\ mode' = "none") ]_vars

\* C17 witness: two questions were answered and Back was pressed once:
\* question 2 of 24 is shown again with its trimmed answer held.
C17_Witness ==
  /\ mode = "questionnaire"
  /\ step = 1
  /\ DOMAIN report_data = { "company_name", "industry" }
  /\ report_data["industry"] = <<"a">>


====
